---- MODULE Spec2Model ----
(***************************************************************************)
(* Model of streamlit_app.py: the dashboard client of the Reddit WSB       *)
(* prediction API.  The state is the process-wide st.cache_data cache of   *)
(* the eleven API operations, the clock that expires its entries, the      *)
(* configured base URL, and what one run of the script did: the calls it   *)
(* made, the HTTP requests it issued and the elements it rendered.         *)
(*                                                                         *)
(* Python strings that the code transforms (upper, strip, len) are         *)
(* sequences of one-character strings; JSON objects are the set of the     *)
(* field names they carry, tagged with the base URL that served them.      *)
(***************************************************************************)
EXTENDS Integers, Sequences, FiniteSets, TLC

VARIABLES
    now,        \* the clock, in seconds
    api_url,    \* the module global api_url (line 32)
    cache,      \* st.cache_data: for each operation, its stored entries
    called,     \* the calls of API operations made by the last step, in order
    http,       \* the HTTP requests sent by the last step, in order
    active_tab, \* st.session_state.active_tab
    entered,    \* the text in the input of the view shown by the last run
    clicked,    \* the label of the button pressed in that run, "" when none
    page,       \* the elements rendered by the last step, a script run
    table,      \* the rows of the comparative table it showed
    fatal,      \* it ended in an uncaught exception
    runs,       \* script runs so far
    value,      \* the number carried by the response field being rendered
    shown,      \* what the rendering of that number put on the page
    session     \* each concurrent session's position in its call of an operation

apiVars == <<now, api_url, cache, called, http>>

scriptVars == <<active_tab, entered, clicked, page, table, fatal, runs, value,
                shown, session>>

vars == <<now, api_url, cache, called, http, active_tab, entered, clicked, page,
          table, fatal, runs, value, shown, session>>

(***************************************************************************)
(* Bounds of the exploration.                                              *)
(***************************************************************************)
\* the clock is sampled at most this many half-TTL steps after time 0
MaxTicks == 3

\* script runs in one behaviour
MaxRuns == 2

(***************************************************************************)
(* Strings.                                                                *)
(***************************************************************************)
\* str.upper(), character by character
UpperChar(c) == IF c = "a" THEN "A" ELSE IF c = "b" THEN "B" ELSE c

\* a variant that leaves the text as typed
upper_unchanged(s) == s

upper(s) == [i \in DOMAIN s |-> UpperChar(s[i])]

RECURSIVE lstrip(_)
lstrip(s) == IF s # <<>> /\ Head(s) = " " THEN lstrip(Tail(s)) ELSE s

RECURSIVE rstrip(_)
rstrip(s) ==
    IF s # <<>> /\ s[Len(s)] = " " THEN rstrip(SubSeq(s, 1, Len(s) - 1)) ELSE s

\* str.strip()
strip(s) == rstrip(lstrip(s))

(***************************************************************************)
(* Configuration.                                                          *)
(***************************************************************************)
API_BASE_URL == "https://daylong-datalab-reddit.hf.space"

\* the value of line 24 as deployed, and the value an operator changes it to
\* ("Cambiar por tu URL real")
OtherUrl == "https://other-deployment.example"

Urls == {API_BASE_URL, OtherUrl}

Ops == {"check_api_health", "get_prediction", "get_model_info", "get_stock_info",
        "get_technical_indicators", "get_reddit_sentiment",
        "get_comprehensive_reddit_analysis", "get_available_subreddits",
        "analyze_text_api", "get_reddit_posts", "get_historical_data_api"}

TTL_predict_one_minute ==
       [check_api_health |-> 60, get_prediction |-> 60, get_model_info |-> 3600,
        get_stock_info |-> 600, get_technical_indicators |-> 300,
        get_reddit_sentiment |-> 300, get_comprehensive_reddit_analysis |-> 300,
        get_available_subreddits |-> 3600, analyze_text_api |-> 60,
        get_reddit_posts |-> 300, get_historical_data_api |-> 300]

\* @st.cache_data(ttl=...) of each operation, in seconds
TTL == [check_api_health |-> 60, get_prediction |-> 600, get_model_info |-> 3600,
        get_stock_info |-> 600, get_technical_indicators |-> 300,
        get_reddit_sentiment |-> 300, get_comprehensive_reddit_analysis |-> 300,
        get_available_subreddits |-> 3600, analyze_text_api |-> 60,
        get_reddit_posts |-> 300, get_historical_data_api |-> 300]

\* method and path template of each operation's request
Endpoint == [check_api_health |-> <<"GET", "/health">>,
             get_prediction |-> <<"GET", "/predict/{symbol}">>,
             get_model_info |-> <<"GET", "/model/info">>,
             get_stock_info |-> <<"GET", "/stock/{symbol}/info">>,
             get_technical_indicators |-> <<"GET", "/stock/{symbol}/indicators">>,
             get_reddit_sentiment |-> <<"GET", "/reddit/{symbol}/sentiment">>,
             get_comprehensive_reddit_analysis |-> <<"GET", "/reddit/{symbol}/comprehensive">>,
             get_available_subreddits |-> <<"GET", "/reddit/subreddits/available">>,
             analyze_text_api |-> <<"POST", "/reddit/analyze-text">>,
             get_reddit_posts |-> <<"GET", "/reddit/{symbol}/posts">>,
             get_historical_data_api |-> <<"GET", "/stock/{symbol}/history">>]

(***************************************************************************)
(* JSON bodies and HTTP outcomes.                                          *)
(***************************************************************************)
\* the fields the views read from each operation's response
Fields == [check_api_health |-> {"status", "model_loaded", "reddit_available"},
           get_prediction |-> {"prediction_percent", "symbol", "timestamp",
                               "prediction", "data_sources", "message"},
           get_model_info |-> {"model_type", "features_count", "loaded", "version"},
           get_stock_info |-> {"company_name", "symbol", "sector", "industry",
                               "exchange", "currency", "current_price",
                               "market_cap", "timestamp"},
           get_technical_indicators |-> {"rsi_14", "macd", "sma_20", "sma_50",
                               "bollinger_upper", "bollinger_lower",
                               "volume_sma", "date"},
           get_reddit_sentiment |-> {"posts_analyzed", "avg_score",
                               "avg_upvote_ratio", "total_comments", "subreddit",
                               "sentiment_score", "sentiment_label", "timestamp",
                               "vader_score"},
           get_comprehensive_reddit_analysis |-> {"total_posts",
                               "aggregated_metrics", "overall_sentiment",
                               "sentiment_label", "timestamp",
                               "subreddit_analysis"},
           get_available_subreddits |-> {"available_subreddits", "descriptions"},
           analyze_text_api |-> {"original_text", "cleaned_text", "text_stats",
                               "sentiment_analysis", "tickers_found",
                               "market_keywords"},
           get_reddit_posts |-> {"posts", "post.title", "post.author",
                               "post.selftext", "post.created_utc", "post.url",
                               "post.score", "post.num_comments",
                               "post.upvote_ratio"},
           get_historical_data_api |-> {"data", "period", "data_points",
                               "start_date", "end_date"}]

\* Python's None, in the shape of a body
None == [kind |-> "None", from |-> "", fields |-> {}]

\* a parsed JSON object: the fields it carries and the base URL that served it
Json(url, fs) == [kind |-> "json", from |-> url, fields |-> fs]

\* an exception leaving a function
Raised == [kind |-> "raise", from |-> "", fields |-> {}]

\* a variant that takes every result for usable
Truthy_unchecked(v) == TRUE

\* bool(x) of a result: None and the empty object are falsy
Truthy(v) == v.kind = "json" /\ v.fields # {}

\* what one HTTP exchange can do: the transport fails, or a response arrives
\* with a status code and a body that parses to an object or does not parse
Outcome(tr, st, parses, fs) ==
    [transport |-> tr, status |-> st, parses |-> parses, fields |-> fs]

TransportFailures ==
    {Outcome(tr, 0, FALSE, {}) : tr \in {"ConnectionError", "Timeout"}}

\* a 200 with each of the given objects, a 200 whose body does not parse, and
\* an error status with a well-formed body
Responses(shapes, errorBody) ==
    {Outcome("ok", 200, TRUE, fs) : fs \in shapes}
        \cup {Outcome("ok", 200, FALSE, {})}
        \cup {Outcome("ok", st, TRUE, errorBody) : st \in {404, 500}}

\* the outcomes the API layer is exercised with
ApiOutcomes(op) == TransportFailures \cup Responses({Fields[op], {}}, Fields[op])

(***************************************************************************)
(* The API gateway: eleven functions, each memoised by st.cache_data.      *)
(***************************************************************************)
\* the body shared by the ten JSON operations:
\*     try:
\*         response = requests.get(...)            raises when the transport fails
\*         if response.status_code == 200:
\*             return response.json()              raises when the body does not parse
\*         else:
\*             return None
\*     except: return None
JsonOrNone_narrow_except(o, url) ==
    IF o.transport # "ok" THEN None
    ELSE IF o.status = 200
         THEN IF o.parses THEN Json(url, o.fields) ELSE Raised
         ELSE None

JsonOrNone(o, url) ==
    IF o.transport # "ok" THEN None
    ELSE IF o.status = 200
         THEN IF o.parses THEN Json(url, o.fields) ELSE None
         ELSE None

\* the body of check_api_health: (True, response.json()) or (False, None)
HealthOrFalse(o, url) ==
    IF o.transport # "ok" THEN [healthy |-> FALSE, data |-> None]
    ELSE IF o.status = 200
         THEN IF o.parses THEN [healthy |-> TRUE, data |-> Json(url, o.fields)]
              ELSE [healthy |-> FALSE, data |-> None]
         ELSE [healthy |-> FALSE, data |-> None]

\* line 74: the element get_prediction's except branch renders.  st.cache_data
\* stores what a function rendered with its value and renders it again on a hit.
Said(op, o) ==
    IF op = "get_prediction" /\ (o.transport # "ok" \/ (o.status = 200 /\ ~o.parses))
    THEN {<<"error", "Error obteniendo prediccion", "">>}
    ELSE {}

\* did the function body end in an exception
Raises(op, v) == IF op = "check_api_health" THEN FALSE ELSE v.kind = "raise"

\* the request an operation sends: requests.get / requests.post of its path
\* under the base URL, with the arguments it embeds in the path and the query
Request(op, url, args) ==
    [method |-> Endpoint[op][1], base |-> url, path |-> Endpoint[op][2],
     args |-> args]

\* the outcome recorded for a call answered from the cache: no exchange
NoExchange == Outcome("none", 0, FALSE, {})

\* the entries of op's cache under key that have not expired at time t
Fresh(c, op, key, t) == {e \in c[op] : e.key = key /\ t - e.at < TTL[op]}

\* the exchanges a call can meet: none when the cache answers it
Exchanges(c, op, key, t, outcomes) ==
    IF Fresh(c, op, key, t) # {} THEN {NoExchange} ELSE outcomes

Memoised_sliding(c, op, key, url, o, t, v) ==
    LET hits == Fresh(c, op, key, t)
        rec(hit, val) == [op |-> op, key |-> key, url |-> url, at |-> t,
                          hit |-> hit, result |-> val,
                          outcome |-> IF hit THEN NoExchange ELSE o]
    IN  IF hits # {}
        THEN LET e == CHOOSE e \in hits : TRUE
             IN  [result |-> e.val,
                  cache |-> [c EXCEPT ![op] = {x \in @ : x.key # key}
                                  \cup {[key |-> key, val |-> e.val, at |-> t,
                                         said |-> e.said]}],
                  http |-> <<>>, said |-> e.said,
                  call |-> rec(TRUE, e.val)]
        ELSE [result |-> v,
              cache |-> IF Raises(op, v) THEN c
                        ELSE [c EXCEPT ![op] = {e \in @ : e.key # key}
                                  \cup {[key |-> key, val |-> v, at |-> t,
                                         said |-> Said(op, o)]}],
              http |-> <<Request(op, url, key)>>, said |-> Said(op, o),
              call |-> rec(FALSE, v)]

\* a variant that stores only the values of successful calls
Memoised_successes_only(c, op, key, url, o, t, v) ==
    LET hits == Fresh(c, op, key, t)
        rec(hit, val) == [op |-> op, key |-> key, url |-> url, at |-> t,
                          hit |-> hit, result |-> val,
                          outcome |-> IF hit THEN NoExchange ELSE o]
        failed == IF op = "check_api_health" THEN ~v.healthy ELSE v.kind # "json"
    IN  IF hits # {}
        THEN LET e == CHOOSE e \in hits : TRUE
             IN  [result |-> e.val, cache |-> c, http |-> <<>>, said |-> e.said,
                  call |-> rec(TRUE, e.val)]
        ELSE [result |-> v,
              cache |-> IF failed THEN c
                        ELSE [c EXCEPT ![op] = {e \in @ : e.key # key}
                                  \cup {[key |-> key, val |-> v, at |-> t,
                                         said |-> Said(op, o)]}],
              http |-> <<Request(op, url, key)>>, said |-> Said(op, o),
              call |-> rec(FALSE, v)]

\* st.cache_data: a call with a live entry under its argument tuple returns the
\* stored value and does not run the function; any other call runs it, and
\* stores what it returned under the argument tuple with the time of the call.
\* The result carries the value, the cache afterwards, the requests sent and a
\* record of the call.
Memoised(c, op, key, url, o, t, v) ==
    LET hits == Fresh(c, op, key, t)
        rec(hit, val) == [op |-> op, key |-> key, url |-> url, at |-> t,
                          hit |-> hit, result |-> val,
                          outcome |-> IF hit THEN NoExchange ELSE o]
    IN  IF hits # {}
        THEN LET e == CHOOSE e \in hits : TRUE
             IN  [result |-> e.val, cache |-> c, http |-> <<>>, said |-> e.said,
                  call |-> rec(TRUE, e.val)]
        ELSE [result |-> v,
              cache |-> IF Raises(op, v) THEN c
                        ELSE [c EXCEPT ![op] = {e \in @ : e.key # key}
                                  \cup {[key |-> key, val |-> v, at |-> t,
                                         said |-> Said(op, o)]}],
              http |-> <<Request(op, url, key)>>, said |-> Said(op, o),
              call |-> rec(FALSE, v)]

\* In each operation: c the cache before the call, url the value of the global
\* api_url when the body runs, o the outcome of the exchange if one happens,
\* t the time of the call.
check_api_health(c, url_arg, o, t) ==
    Memoised(c, "check_api_health", <<url_arg>>, url_arg, o, t,
             HealthOrFalse(o, url_arg))

get_prediction(c, symbol, include_sentiment, url, o, t) ==
    Memoised(c, "get_prediction", <<symbol, include_sentiment>>, url, o, t,
             JsonOrNone(o, url))

get_model_info(c, url, o, t) ==
    Memoised(c, "get_model_info", <<>>, url, o, t, JsonOrNone(o, url))

get_stock_info(c, symbol, url, o, t) ==
    Memoised(c, "get_stock_info", <<symbol>>, url, o, t, JsonOrNone(o, url))

get_technical_indicators(c, symbol, url, o, t) ==
    Memoised(c, "get_technical_indicators", <<symbol>>, url, o, t,
             JsonOrNone(o, url))

get_reddit_sentiment(c, symbol, limit, url, o, t) ==
    Memoised(c, "get_reddit_sentiment", <<symbol, limit>>, url, o, t,
             JsonOrNone(o, url))

get_comprehensive_reddit_analysis(c, symbol, subreddits, limit, url, o, t) ==
    Memoised(c, "get_comprehensive_reddit_analysis",
             <<symbol, subreddits, limit>>, url, o, t, JsonOrNone(o, url))

get_available_subreddits(c, url, o, t) ==
    Memoised(c, "get_available_subreddits", <<>>, url, o, t, JsonOrNone(o, url))

analyze_text_api(c, text, url, o, t) ==
    Memoised(c, "analyze_text_api", <<text>>, url, o, t, JsonOrNone(o, url))

get_reddit_posts(c, symbol, limit, url, o, t) ==
    Memoised(c, "get_reddit_posts", <<symbol, limit>>, url, o, t,
             JsonOrNone(o, url))

get_historical_data_api(c, symbol, period, interval, url, o, t) ==
    Memoised(c, "get_historical_data_api", <<symbol, period, interval>>, url,
             o, t, JsonOrNone(o, url))

(***************************************************************************)
(* The API layer on its own: calls of the eleven operations, the clock and *)
(* a change of the configured base URL.  One behaviour exercises one       *)
(* operation (st.cache_data keeps one cache per decorated function), with  *)
(* the clock sampled every half TTL of that operation.                     *)
(***************************************************************************)
ApiSymbols == {<<"A">>, <<"B">>}

\* (symbol, include_sentiment) pairs: one symbol under both flags, one flag
\* under both symbols
ApiPredictions == {<<<<"A">>, TRUE>>, <<<<"A">>, FALSE>>, <<<<"B">>, TRUE>>}

\* the default of the subreddits parameter (line 132)
DefaultSubreddits == <<"wallstreetbets", ",", "investing", ",", "stocks">>

ApiTexts == {<<"b", "u", "y", " ", "A">>, <<"s", "e", "l", "l">>}

\* no number is being rendered (the steps of the API layer and of the script
\* runs render the presence of fields, not their numbers)
NoValue == [absent |-> TRUE, n |-> 0]

\* the sessions of the Streamlit server: each runs the script in a thread of
\* its own, all share the st.cache_data caches
Sessions == {"s1", "s2"}

\* no session is inside a call
NoSessions == [s \in Sessions |-> [pc |-> "idle", key |-> <<>>, last |-> ""]]

NothingShown == [what |-> "", kind |-> "", label |-> "", text |-> <<>>,
                 progress |-> <<0, 1>>]

\* no operation other than op has been called so far
OnlyOp(op) == \A p \in Ops \ {op} : cache[p] = {}

\* the effect of one call r on the state
Did(r) ==
    /\ cache' = r.cache
    /\ called' = <<r.call>>
    /\ http' = r.http
    /\ UNCHANGED <<now, api_url>>
    /\ UNCHANGED scriptVars

InitApi ==
    /\ now = 0
    /\ api_url = API_BASE_URL
    /\ cache = [op \in Ops |-> {}]
    /\ called = <<>>
    /\ http = <<>>
    /\ active_tab = 0
    /\ entered = <<>>
    /\ clicked = ""
    /\ page = {}
    /\ table = <<>>
    /\ fatal = FALSE
    /\ runs = 0
    /\ value = NoValue
    /\ shown = NothingShown
    /\ session = NoSessions

Call_check_api_health ==
    /\ OnlyOp("check_api_health")
    /\ \E o \in Exchanges(cache, "check_api_health", <<api_url>>, now,
                          ApiOutcomes("check_api_health")) :
          Did(check_api_health(cache, api_url, o, now))

Call_get_prediction ==
    /\ OnlyOp("get_prediction")
    /\ \E k \in ApiPredictions :
       \E o \in Exchanges(cache, "get_prediction", k, now,
                          ApiOutcomes("get_prediction")) :
          Did(get_prediction(cache, k[1], k[2], api_url, o, now))

Call_get_model_info ==
    /\ OnlyOp("get_model_info")
    /\ \E o \in Exchanges(cache, "get_model_info", <<>>, now,
                          ApiOutcomes("get_model_info")) :
          Did(get_model_info(cache, api_url, o, now))

Call_get_stock_info ==
    /\ OnlyOp("get_stock_info")
    /\ \E s \in ApiSymbols :
       \E o \in Exchanges(cache, "get_stock_info", <<s>>, now,
                          ApiOutcomes("get_stock_info")) :
          Did(get_stock_info(cache, s, api_url, o, now))

Call_get_technical_indicators ==
    /\ OnlyOp("get_technical_indicators")
    /\ \E s \in ApiSymbols :
       \E o \in Exchanges(cache, "get_technical_indicators", <<s>>, now,
                          ApiOutcomes("get_technical_indicators")) :
          Did(get_technical_indicators(cache, s, api_url, o, now))

Call_get_reddit_sentiment ==
    /\ OnlyOp("get_reddit_sentiment")
    /\ \E s \in ApiSymbols :
       \E o \in Exchanges(cache, "get_reddit_sentiment", <<s, 100>>, now,
                          ApiOutcomes("get_reddit_sentiment")) :
          Did(get_reddit_sentiment(cache, s, 100, api_url, o, now))

Call_get_comprehensive_reddit_analysis ==
    /\ OnlyOp("get_comprehensive_reddit_analysis")
    /\ \E s \in ApiSymbols :
       \E o \in Exchanges(cache, "get_comprehensive_reddit_analysis",
                          <<s, DefaultSubreddits, 100>>, now,
                          ApiOutcomes("get_comprehensive_reddit_analysis")) :
          Did(get_comprehensive_reddit_analysis(
                  cache, s, DefaultSubreddits, 100, api_url, o, now))

Call_get_available_subreddits ==
    /\ OnlyOp("get_available_subreddits")
    /\ \E o \in Exchanges(cache, "get_available_subreddits", <<>>, now,
                          ApiOutcomes("get_available_subreddits")) :
          Did(get_available_subreddits(cache, api_url, o, now))

Call_analyze_text_api ==
    /\ OnlyOp("analyze_text_api")
    /\ \E x \in ApiTexts :
       \E o \in Exchanges(cache, "analyze_text_api", <<x>>, now,
                          ApiOutcomes("analyze_text_api")) :
          Did(analyze_text_api(cache, x, api_url, o, now))

Call_get_reddit_posts ==
    /\ OnlyOp("get_reddit_posts")
    /\ \E s \in ApiSymbols :
       \E o \in Exchanges(cache, "get_reddit_posts", <<s, 20>>, now,
                          ApiOutcomes("get_reddit_posts")) :
          Did(get_reddit_posts(cache, s, 20, api_url, o, now))

Call_get_historical_data_api ==
    /\ OnlyOp("get_historical_data_api")
    /\ \E s \in ApiSymbols :
       \E o \in Exchanges(cache, "get_historical_data_api",
                          <<s, "30d", "1d">>, now,
                          ApiOutcomes("get_historical_data_api")) :
          Did(get_historical_data_api(cache, s, "30d", "1d", api_url, o, now))

\* a step that is not a script run and calls nothing
NoOutputs ==
    /\ called' = <<>>
    /\ http' = <<>>
    /\ entered' = <<>>
    /\ clicked' = ""
    /\ page' = {}
    /\ table' = <<>>
    /\ fatal' = FALSE
    /\ UNCHANGED <<value, shown, session>>

\* time passes
Pass(d) ==
    /\ now + d <= MaxTicks * d
    /\ now' = now + d
    /\ NoOutputs
    /\ UNCHANGED <<api_url, cache, active_tab, runs>>

\* half the TTL of the operation whose cache is populated
Tick == \E op \in Ops : cache[op] # {} /\ OnlyOp(op) /\ Pass(TTL[op] \div 2)

\* the operator points the deployment at another API: line 24 is edited and
\* the script runs again in the same process, whose st.cache_data caches are
\* kept (they are keyed by the decorated function, which did not change)
SetApiUrl ==
    /\ \E u \in Urls \ {api_url} : api_url' = u
    /\ NoOutputs
    /\ UNCHANGED <<now, cache, active_tab, runs>>

NextApi ==
    \/ Call_check_api_health
    \/ Call_get_prediction
    \/ Call_get_model_info
    \/ Call_get_stock_info
    \/ Call_get_technical_indicators
    \/ Call_get_reddit_sentiment
    \/ Call_get_comprehensive_reddit_analysis
    \/ Call_get_available_subreddits
    \/ Call_analyze_text_api
    \/ Call_get_reddit_posts
    \/ Call_get_historical_data_api
    \/ Tick
    \/ SetApiUrl

SpecApi == InitApi /\ [][NextApi]_vars

(***************************************************************************)
(* One run of the script.  Streamlit runs the file top to bottom on every  *)
(* interaction: the health gate first, then the view of the selected tab.  *)
(* A view is a value: the cache it leaves, the calls and requests it made, *)
(* the elements it rendered, and whether an exception ended the run.       *)
(* An element is <<kind, text, source>>: source is "value" when the text   *)
(* shows a field of a response, "default" when the field was absent and    *)
(* its default is shown, "" for fixed text.                                *)
(***************************************************************************)
tab_options == <<"Predicciones", "Analisis", "Graficos", "Informacion de Accion",
                 "Reddit Sentiment", "Analisis de Texto", "Informacion">>

Start(c) == [cache |-> c, called |-> <<>>, http |-> <<>>, page |-> {},
             fatal |-> FALSE]

\* the view after a call r of a cached operation
AfterCall(v, r) ==
    [v EXCEPT !.cache = r.cache, !.called = Append(@, r.call),
              !.http = @ \o r.http, !.page = @ \cup r.said]

\* st.<kind>(text)
Show(v, kind, text) == [v EXCEPT !.page = @ \cup {<<kind, text, "">>}]

\* an exception nothing catches: Streamlit renders it and ends the run
Uncaught(v, what) ==
    [v EXCEPT !.fatal = TRUE, !.page = @ \cup {<<"exception", what, "">>}]

\* Rendering a response, statement by statement.  A step is
\* <<access, field, kind, text>>: "index" reads body[field] (KeyError when
\* the field is absent), "get" reads body.get(field, default).
RECURSIVE Render(_, _, _)
Render(v, body, steps) ==
    IF steps = <<>> \/ v.fatal THEN v
    ELSE LET st == Head(steps)
         IN  IF st[1] = "index"
             THEN IF st[2] \in body.fields
                  THEN Render([v EXCEPT !.page = @ \cup {<<st[3], st[4], "value">>}],
                              body, Tail(steps))
                  ELSE Uncaught(v, st[2])
             ELSE Render([v EXCEPT !.page = @ \cup
                              {<<st[3], st[4],
                                 IF st[2] \in body.fields THEN "value" ELSE "default">>}],
                         body, Tail(steps))

\* lines 47-57: the health check and the gate
Gate(c, url, o, t) ==
    LET r == check_api_health(c, url, o, t)
        v == AfterCall(Start(c), r)
    IN  IF r.result.healthy
        THEN LET ok == Show(v, "success", "API conectada correctamente")
             IN  IF Truthy(r.result.data)
                 THEN Render(ok, r.result.data,
                             <<<<"get", "model_loaded", "info", "Modelo cargado">>>>)
                 ELSE ok
        ELSE Show(v, "error", "No se pudo conectar con la API.")

Stopped_never(v) == FALSE

\* st.stop() was reached
Stopped(v) == ~v.called[1].result.healthy

\* lines 263-389: a prediction is rendered
PrediccionSteps ==
    <<<<"index", "prediction_percent", "metric", "Prediccion (%)">>,
      <<"index", "symbol", "metric", "Simbolo">>,
      <<"index", "timestamp", "metric", "Timestamp">>,
      <<"index", "prediction", "json", "Prediccion (log return)">>,
      <<"get", "message", "json", "Mensaje">>,
      <<"index", "data_sources", "json", "data_sources">>,
      <<"index", "prediction_percent", "gauge", "Medidor de Prediccion">>,
      <<"index", "prediction_percent", "band", "Interpretacion">>>>

\* lines 241-394: the Predicciones view
Predicciones(v0, text, include_sentiment, pressed, o, url, t) ==
    LET symbol == upper(text)
        v == Show(v0, "header", "Predicciones en Tiempo Real")
    IN  IF ~pressed THEN v
        ELSE IF symbol # <<>>
        THEN LET r == get_prediction(v.cache, symbol, include_sentiment, url, o, t)
                 w == AfterCall(v, r)
             IN  IF Truthy(r.result)
                 THEN LET x == Render(Show(w, "success", "Prediccion completada"),
                                      r.result, PrediccionSteps)
                      IN  IF x.fatal THEN x
                          ELSE Show(x, "warning", "Advertencia: solo fines educativos")
                 ELSE Show(w, "error", "No se pudo obtener la prediccion.")
        ELSE Show(v, "warning", "Por favor ingresa un simbolo valido.")

\* str.split(sep)
RECURSIVE split(_, _)
split(s, sep) ==
    IF \E i \in 1..Len(s) : s[i] = sep
    THEN LET i == CHOOSE i \in 1..Len(s) :
                      s[i] = sep /\ \A j \in 1..(i - 1) : s[j] # sep
         IN  <<SubSeq(s, 1, i - 1)>> \o split(SubSeq(s, i + 1, Len(s)), sep)
    ELSE <<s>>

\* line 409: [s.strip().upper() for s in pieces if s.strip()]
RECURSIVE StripUpperNonBlank(_)
StripUpperNonBlank(pieces) ==
    IF pieces = <<>> THEN <<>>
    ELSE IF strip(Head(pieces)) # <<>>
         THEN <<upper(strip(Head(pieces)))>> \o StripUpperNonBlank(Tail(pieces))
         ELSE StripUpperNonBlank(Tail(pieces))

\* lines 421-451: the company information of a row, every field defaulted
StockInfoCellSteps ==
    <<<<"get", "company_name", "cell", "company_name">>,
      <<"get", "sector", "cell", "sector">>,
      <<"get", "current_price", "cell", "current_price">>,
      <<"get", "market_cap", "cell", "market_cap">>>>

\* lines 453-458: the row of one symbol
PredictionRowSteps ==
    <<<<"index", "prediction_percent", "cell", "Prediccion (%)">>,
      <<"index", "timestamp", "cell", "Timestamp">>>>

\* lines 415-458: the loop over the symbols; os gives the outcome of the two
\* exchanges of each symbol.  The result is the view and the rows collected.
RECURSIVE AnalisisLoop(_, _, _, _, _, _)
AnalisisLoop(v, predictions, symbols, os, url, t) ==
    IF symbols = <<>> \/ v.fatal THEN [view |-> v, predictions |-> predictions]
    ELSE LET symbol == Head(symbols)
             p == get_prediction(v.cache, symbol, TRUE, url, os[1], t)
             v1 == AfterCall(v, p)
             q == get_stock_info(v1.cache, symbol, url, os[2], t)
             v2 == AfterCall(v1, q)
         IN  IF Truthy(p.result)
             THEN LET v3 == IF Truthy(q.result)
                            THEN Render(v2, q.result, StockInfoCellSteps)
                            ELSE Show(v2, "cell", "Informacion no disponible")
                      v4 == Render(v3, p.result, PredictionRowSteps)
                  IN  AnalisisLoop(v4,
                                   IF v4.fatal THEN predictions
                                   ELSE Append(predictions, symbol),
                                   Tail(symbols), SubSeq(os, 3, Len(os)), url, t)
             ELSE AnalisisLoop(v2, predictions, Tail(symbols),
                               SubSeq(os, 3, Len(os)), url, t)

\* lines 396-486: the Analisis view.  table is the rows of the DataFrame shown.
Analisis(v0, symbols_input, pressed, os, url, t) ==
    LET symbols == StripUpperNonBlank(split(symbols_input, ","))
        v == Show(v0, "header", "Analisis Comparativo")
    IN  IF ~pressed \/ symbols = <<>> THEN [view |-> v, table |-> <<>>]
        ELSE LET l == AnalisisLoop(v, <<>>, symbols, os, url, t)
             IN  IF l.view.fatal THEN [view |-> l.view, table |-> <<>>]
                 ELSE IF l.predictions # <<>>
                 THEN [view |-> Show(Show(Show(l.view,
                                   "dataframe", "Resultados Comparativos"),
                                   "chart", "Predicciones por Simbolo"),
                                   "ranking", "Ranking de Predicciones"),
                       table |-> l.predictions]
                 ELSE [view |-> Show(l.view, "error",
                          "No se pudieron obtener predicciones para ningun simbolo."),
                       table |-> <<>>]

\* lines 200-208: yfinance, not cached: a frame, an empty frame, or None when
\* the library raises
YFinanceOutcomes == {"frame", "empty", "None"}

\* lines 200-208: get_historical_data(symbol, days=30) returns the frame of
\* yfinance (with rows, or empty) or None when yfinance raised; it is not
\* cached.  The result has the shape of the cached operations' results.
get_historical_data(c, symbol, days, yf, t) ==
    LET o == IF yf = "frame" THEN Outcome("ok", 200, TRUE, {"Close", "Volume"})
             ELSE IF yf = "empty" THEN Outcome("ok", 200, TRUE, {})
             ELSE Outcome("ConnectionError", 0, FALSE, {})
        hist == IF yf = "None" THEN None ELSE Json("yfinance", o.fields)
    IN  [result |-> hist, cache |-> c, http |-> <<>>, said |-> {},
         call |-> [op |-> "get_historical_data", key |-> <<symbol, days>>,
                   url |-> "yfinance", at |-> t, hit |-> FALSE, result |-> hist,
                   outcome |-> o]]

\* lines 544-654: the chart drawn from the API's history
HistorySteps ==
    <<<<"index", "data", "chart", "Precios Historicos">>,
      <<"index", "data", "chart", "Volumen de Trading">>,
      <<"index", "data", "metric", "Estadisticas Detalladas">>,
      <<"get", "period", "info", "Periodo">>,
      <<"get", "data_points", "info", "Puntos de datos">>,
      <<"get", "start_date", "info", "Fecha inicio">>,
      <<"get", "end_date", "info", "Fecha fin">>>>

\* lines 488-722: the Graficos view
Graficos(v0, chart_symbol, period_value, interval_value, pressed, o, yf, url, t) ==
    LET v == Show(v0, "header", "Visualizaciones Avanzadas")
        prompt(x) == Show(x, "info", "Haz clic en 'Actualizar Graficos'")
    IN  IF ~pressed THEN prompt(v)
        ELSE LET r == get_historical_data_api(v.cache, chart_symbol, period_value,
                                              interval_value, url, o, t)
                 y == get_historical_data(r.cache, chart_symbol, 30, yf, t)
                 w == AfterCall(AfterCall(v, r), y)
             IN  IF Truthy(r.result) THEN Render(w, r.result, HistorySteps)
                 ELSE IF y.result # None /\ y.result.fields # {}
                 THEN Show(Show(w, "warning", "Usando datos de yfinance como respaldo"),
                           "chart", "Precios Historicos (30 dias)")
                 ELSE prompt(w)

\* lines 746-779: the company's information, every field defaulted
StockInfoSteps ==
    <<<<"get", "company_name", "metric", "Empresa">>,
      <<"get", "symbol", "metric", "Simbolo">>,
      <<"get", "sector", "metric", "Sector">>,
      <<"get", "industry", "metric", "Industria">>,
      <<"get", "exchange", "metric", "Bolsa">>,
      <<"get", "currency", "metric", "Moneda">>,
      <<"get", "current_price", "metric", "Precio Actual">>,
      <<"get", "market_cap", "metric", "Capitalizacion de Mercado">>,
      <<"get", "timestamp", "metric", "Timestamp">>>>

\* lines 782-814: the technical indicators, every field defaulted
IndicatorSteps ==
    <<<<"get", "rsi_14", "metric", "RSI (14)">>,
      <<"get", "macd", "metric", "MACD">>,
      <<"get", "date", "metric", "Fecha">>,
      <<"get", "volume_sma", "metric", "Volumen SMA">>,
      <<"get", "sma_20", "metric", "SMA 20">>,
      <<"get", "sma_50", "metric", "SMA 50">>,
      <<"get", "bollinger_upper", "metric", "BB Superior">>,
      <<"get", "bollinger_lower", "metric", "BB Inferior">>,
      <<"get", "rsi_14", "band", "RSI">>,
      <<"get", "macd", "band", "MACD momentum">>>>

\* lines 724-821: the Informacion de Accion view
InformacionDeAccion(v0, text, pressed, o1, o2, url, t) ==
    LET stock_symbol == upper(text)
        v == Show(v0, "header", "Informacion Detallada de Accion")
    IN  IF ~pressed \/ stock_symbol = <<>> THEN v
        ELSE LET r1 == get_stock_info(v.cache, stock_symbol, url, o1, t)
                 v1 == AfterCall(v, r1)
                 r2 == get_technical_indicators(v1.cache, stock_symbol, url, o2, t)
                 v2 == AfterCall(v1, r2)
             IN  IF Truthy(r1.result)
                 THEN LET v3 == Render(Show(v2, "success",
                                            "Informacion obtenida correctamente"),
                                       r1.result, StockInfoSteps)
                          v4 == IF Truthy(r2.result)
                                THEN Render(Show(v3, "subheader",
                                                 "Indicadores Tecnicos"),
                                            r2.result, IndicatorSteps)
                                ELSE v3
                      IN  Show(v4, "expander", "Informacion Completa (JSON)")
                 ELSE v2

\* lines 829-844: the model's information, every field defaulted
ModelInfoSteps ==
    <<<<"get", "model_type", "json", "Tipo de Modelo">>,
      <<"get", "features_count", "json", "Features">>,
      <<"get", "loaded", "json", "Cargado">>,
      <<"get", "version", "json", "Version">>>>

\* lines 849-859: the state of the API, from the health data of this run
HealthSteps ==
    <<<<"get", "model_loaded", "metric", "Modelo">>,
      <<"get", "reddit_available", "metric", "Reddit">>>>

\* lines 823-889: the Informacion view
Informacion(v0, health_data, o, url, t) ==
    LET v == Show(v0, "header", "Informacion del Sistema")
        r == get_model_info(v.cache, url, o, t)
        v1 == AfterCall(v, r)
        v2 == IF Truthy(r.result)
              THEN Render(Show(v1, "subheader", "Informacion del Modelo"),
                          r.result, ModelInfoSteps)
              ELSE v1
        v3 == IF Truthy(health_data)
              THEN Render(Show(v2, "metric", "Estado: Saludable"),
                          health_data, HealthSteps)
              ELSE v2
    IN  Show(v3, "markdown", "Acerca de la Aplicacion")

\* lines 911-1003: the analysis of a text, every field defaulted
TextoSteps ==
    <<<<"get", "original_text", "text_area", "Texto Original">>,
      <<"get", "cleaned_text", "text_area", "Texto Limpio">>,
      <<"get", "text_stats", "metric", "Estadisticas">>,
      <<"get", "sentiment_analysis", "metric", "Analisis de Sentimiento">>,
      <<"get", "tickers_found", "code", "Tickers Encontrados">>,
      <<"get", "market_keywords", "badge", "Palabras Clave del Mercado">>>>

AnalisisDeTexto_untrimmed(v0, text_input, button, o, url, t) ==
    LET v == Show(v0, "header", "Analisis de Texto Individual")
        examples(x) == IF button = "Usar Ejemplo"
                       THEN Show(Show(x, "subheader", "Ejemplos de Texto"),
                                 "text_area", "example_text")
                       ELSE Show(x, "subheader", "Ejemplos de Texto")
    IN  IF button # "Analizar Texto" THEN examples(v)
        ELSE IF text_input # <<>> /\ Len(text_input) > 3
        THEN LET r == analyze_text_api(v.cache, text_input, url, o, t)
                 w == AfterCall(v, r)
             IN  IF Truthy(r.result)
                 THEN examples(Render(Show(w, "success", "Analisis completado"),
                                      r.result, TextoSteps))
                 ELSE examples(Show(w, "error", "No se pudo analizar el texto."))
        ELSE examples(Show(v, "warning",
                           "Por favor ingresa un texto valido (minimo 3 caracteres)."))

\* lines 893-1023: the Analisis de Texto view; button is the button pressed
\* in this run, if any
AnalisisDeTexto(v0, text_input, button, o, url, t) ==
    LET v == Show(v0, "header", "Analisis de Texto Individual")
        examples(x) == IF button = "Usar Ejemplo"
                       THEN Show(Show(x, "subheader", "Ejemplos de Texto"),
                                 "text_area", "example_text")
                       ELSE Show(x, "subheader", "Ejemplos de Texto")
    IN  IF button # "Analizar Texto" THEN examples(v)
        ELSE IF text_input # <<>> /\ Len(strip(text_input)) > 3
        THEN LET r == analyze_text_api(v.cache, text_input, url, o, t)
                 w == AfterCall(v, r)
             IN  IF Truthy(r.result)
                 THEN examples(Render(Show(w, "success", "Analisis completado"),
                                      r.result, TextoSteps))
                 ELSE examples(Show(w, "error", "No se pudo analizar el texto."))
        ELSE examples(Show(v, "warning",
                           "Por favor ingresa un texto valido (minimo 3 caracteres)."))

\* ",".join(names), as the sequence of its pieces
RECURSIVE join(_, _)
join(names, sep) ==
    IF names = <<>> THEN <<>>
    ELSE IF Len(names) = 1 THEN names
    ELSE <<Head(names), sep>> \o join(Tail(names), sep)

\* the list under 'available_subreddits' of a response that carries it
AvailableList == <<"wallstreetbets", "investing">>

\* lines 1103-1178 and 1256-1301: a comprehensive analysis, every field defaulted
ComprehensiveSteps ==
    <<<<"get", "total_posts", "metric", "Total Posts">>,
      <<"get", "aggregated_metrics", "metric", "Metricas Generales">>,
      <<"get", "overall_sentiment", "metric", "Score Sentimiento">>,
      <<"get", "sentiment_label", "label", "Sentimiento General">>,
      <<"get", "timestamp", "metric", "Timestamp">>,
      <<"get", "subreddit_analysis", "expander", "Analisis Detallado por Subreddit">>,
      <<"get", "aggregated_metrics", "chart", "Metricas Agregadas de Sentimiento">>>>

\* lines 1180-1250 and 1303-1321: a basic analysis, every field defaulted
BasicSteps ==
    <<<<"get", "posts_analyzed", "metric", "Posts Analizados">>,
      <<"get", "avg_score", "metric", "Score Promedio">>,
      <<"get", "avg_upvote_ratio", "metric", "Upvote Ratio">>,
      <<"get", "total_comments", "metric", "Total Comentarios">>,
      <<"get", "subreddit", "metric", "Subreddit">>,
      <<"get", "sentiment_score", "metric", "Score Sentimiento">>,
      <<"get", "sentiment_label", "label", "Sentimiento">>,
      <<"get", "timestamp", "metric", "Timestamp">>,
      <<"get", "vader_score", "metric", "Analisis Avanzado">>,
      <<"get", "avg_score", "chart", "Metricas de Sentimiento">>>>

\* lines 1327-1393: a post of the list
PostSteps ==
    <<<<"index", "post.title", "expander", "post">>,
      <<"index", "post.author", "write", "Autor">>,
      <<"index", "post.selftext", "write", "Contenido">>,
      <<"index", "post.created_utc", "write", "Fecha">>,
      <<"index", "post.score", "metric", "Score">>,
      <<"index", "post.num_comments", "metric", "Comentarios">>,
      <<"index", "post.upvote_ratio", "metric", "Upvote Ratio">>,
      <<"index", "post.url", "markdown", "Ver en Reddit">>>>

Basico == "Basico (WSB)"

Comprehensivo == "Comprehensivo (Multiples)"

\* a variant that selects nothing when the list of subreddits is unavailable
selected_subreddits_none(available_subreddits_data, analysis_type, checked) ==
    LET available_subreddits ==
            IF "available_subreddits" \in available_subreddits_data.fields
            THEN AvailableList ELSE <<>>
        IsChecked(x) == x \in checked
    IN  IF analysis_type = Comprehensivo /\ Truthy(available_subreddits_data)
        THEN SelectSeq(available_subreddits, IsChecked)
        ELSE <<>>

\* lines 1055-1080: the subreddits analysed; checked is the set of subreddit
\* checkboxes that are ticked
selected_subreddits(available_subreddits_data, analysis_type, checked) ==
    LET available_subreddits ==
            IF "available_subreddits" \in available_subreddits_data.fields
            THEN AvailableList ELSE <<>>
        IsChecked(x) == x \in checked
    IN  IF analysis_type = Comprehensivo /\ Truthy(available_subreddits_data)
        THEN SelectSeq(available_subreddits, IsChecked)
        ELSE <<"wallstreetbets">>

\* a variant that takes a response for comprehensive by another of its fields
is_comprehensive_by_total_posts(sentiment_data) ==
    "total_posts" \in sentiment_data.fields

\* line 1099: is_comprehensive = 'subreddit_analysis' in sentiment_data
is_comprehensive(sentiment_data) ==
    "subreddit_analysis" \in sentiment_data.fields

\* lines 1025-1403: the Reddit Sentiment view
RedditSentiment(v0, text, posts_limit, analysis_type, checked, pressed, o0, o1, o2, url, t) ==
    LET v == Show(v0, "header", "Analisis de Sentimiento Reddit")
        a == get_available_subreddits(v.cache, url, o0, t)
        va == AfterCall(v, a)
        reddit_symbol == upper(text)
        vt == Show(va, "selectbox", analysis_type)
        choosing == analysis_type = Comprehensivo /\ Truthy(a.result)
        selected == selected_subreddits(a.result, analysis_type, checked)
        vc == [vt EXCEPT !.page = @ \cup {<<"checkbox", selected[i], "checked">> :
                                              i \in DOMAIN selected}]
        vs == IF choosing
              THEN IF selected # <<>>
                   THEN Show(vc, "info", "Subreddits seleccionados")
                   ELSE Show(vc, "warning",
                             "Selecciona al menos un subreddit para el analisis")
              ELSE vt
    IN  IF ~pressed THEN vs
        ELSE IF reddit_symbol = <<>>
        THEN Show(vs, "warning", "Por favor ingresa un simbolo valido.")
        ELSE LET multi == analysis_type = Comprehensivo /\ selected # <<>>
                 r == IF multi
                      THEN get_comprehensive_reddit_analysis(
                               vs.cache, reddit_symbol,
                               join(selected, ","), posts_limit,
                               url, o1, t)
                      ELSE get_reddit_sentiment(vs.cache, reddit_symbol,
                                                posts_limit, url, o1, t)
                 v1 == AfterCall(vs, r)
                 q == get_reddit_posts(v1.cache, reddit_symbol, 10, url, o2, t)
                 v2 == IF multi THEN v1 ELSE AfterCall(v1, q)
                 posts_data == IF multi THEN None ELSE q.result
             IN  IF Truthy(r.result)
                 THEN LET v3 == Render(Show(v2, "success",
                                            "Analisis de sentimiento completado"),
                                       r.result,
                                       IF is_comprehensive(r.result)
                                       THEN ComprehensiveSteps
                                       ELSE BasicSteps)
                          v4 == IF Truthy(posts_data)
                                     /\ "posts" \in posts_data.fields
                                THEN Render(Show(v3, "subheader", "Posts Populares"),
                                            posts_data, PostSteps)
                                ELSE v3
                      IN  IF v4.fatal THEN v4
                          ELSE Show(v4, "expander", "Datos Completos del Analisis")
                 ELSE Show(v2, "error",
                           "No se pudo obtener el analisis de sentimiento.")

(***************************************************************************)
(* The application: script runs, the clock, a change of the base URL.      *)
(***************************************************************************)
\* what the user types as a symbol
SymbolInputs == {<<>>, <<" ">>, <<"a">>}

\* what the user types as a list of symbols
SymbolListInputs == {<<>>, <<" ", ",", " ">>, <<"a">>, <<"a", ",", " ", "b">>}

\* what the user types as a text
TextInputs == {<<>>, <<" ", "a", " ", " ">>, <<"a", "b">>, <<"a", "b", "a">>,
               <<"a", "b", "a", "b">>}

\* the exchanges a view is exercised with: a complete object, one lacking the
\* fields of lacking, an error status, a failed connection
Some(op, lacking) ==
    {Outcome("ok", 200, TRUE, Fields[op]), Outcome("ok", 500, TRUE, Fields[op]),
     Outcome("ConnectionError", 0, FALSE, {})}
        \cup {Outcome("ok", 200, TRUE, Fields[op] \ d) : d \in lacking}

\* the answers of the two sentiment endpoints: each one's own object, an
\* error status, and an object of the other one's shape (the basic object
\* with the key subreddit_analysis added, the comprehensive object without it)
SentimentAnswers(op) ==
    (Some(op, {}) \ TransportFailures)
        \cup {Outcome("ok", 200, TRUE,
                      IF op = "get_reddit_sentiment"
                      THEN Fields[op] \cup {"subreddit_analysis"}
                      ELSE Fields[op] \ {"subreddit_analysis"})}

\* the exchanges of a call that may not be made
IfCalled(made, c, op, key, t, outcomes) ==
    IF made THEN Exchanges(c, op, key, t, outcomes) ELSE {NoExchange}

\* Bound of the exploration: a behaviour fetches through one view (besides
\* the health check, the cache holds entries of that view's operations only).
Through(ops) ==
    \A op \in Ops \ (ops \cup {"check_api_health"}) : cache[op] = {}

Init == InitApi

\* the state after a script run that ended as view v, with tab selected, text
\* in its input and button pressed
Finish(v, tab, text, button, rows) ==
    /\ entered' = text
    /\ clicked' = button
    /\ cache' = v.cache
    /\ called' = v.called
    /\ http' = v.http
    /\ page' = v.page
    /\ fatal' = v.fatal
    /\ table' = rows
    /\ active_tab' = tab
    /\ runs' = runs + 1
    /\ UNCHANGED <<now, api_url, value, shown, session>>

HealthExchanges ==
    Exchanges(cache, "check_api_health", <<api_url>>, now,
              Some("check_api_health", {}))

RunPredicciones ==
    /\ runs < MaxRuns
    /\ Through({"get_prediction"})
    /\ \E oh \in HealthExchanges :
         LET g == Gate(cache, api_url, oh, now)
         IN  IF Stopped(g) THEN Finish(g, active_tab, <<>>, "", <<>>)
             ELSE \E text \in SymbolInputs, b \in BOOLEAN, pressed \in BOOLEAN :
                  \E o \in IfCalled(pressed /\ text # <<>>, g.cache, "get_prediction",
                                    <<upper(text), b>>, now,
                                    Some("get_prediction",
                                         {{"prediction_percent"}, {"message"},
                                          Fields["get_prediction"]})) :
                     Finish(Predicciones(g, text, b, pressed, o, api_url, now),
                            0, text, IF pressed THEN "Hacer Prediccion" ELSE "",
                            <<>>)

RunAnalisis ==
    /\ runs < MaxRuns
    /\ Through({"get_prediction", "get_stock_info"})
    /\ \E oh \in HealthExchanges :
         LET g == Gate(cache, api_url, oh, now)
         IN  IF Stopped(g) THEN Finish(g, active_tab, <<>>, "", <<>>)
             ELSE \E input \in SymbolListInputs, pressed \in BOOLEAN :
                  LET symbols == StripUpperNonBlank(split(input, ","))
                      nth(i) == IF Len(symbols) >= i THEN symbols[i] ELSE <<>>
                      predicted(i) ==
                          IfCalled(pressed /\ Len(symbols) >= i, g.cache,
                                   "get_prediction", <<nth(i), TRUE>>, now,
                                   Some("get_prediction", {{"timestamp"}})
                                      \ TransportFailures)
                      informed(i) ==
                          IfCalled(pressed /\ Len(symbols) >= i, g.cache,
                                   "get_stock_info", <<nth(i)>>, now,
                                   Some("get_stock_info", {}) \ TransportFailures)
                  IN  \E o1 \in predicted(1), o2 \in informed(1),
                         o3 \in predicted(2), o4 \in informed(2) :
                         LET a == Analisis(g, input, pressed, <<o1, o2, o3, o4>>,
                                           api_url, now)
                         IN  Finish(a.view, 1, input,
                                    IF pressed THEN "Analizar Multiples" ELSE "",
                                    a.table)

RunGraficos ==
    /\ runs < MaxRuns
    /\ Through({"get_historical_data_api"})
    /\ \E oh \in HealthExchanges :
         LET g == Gate(cache, api_url, oh, now)
         IN  IF Stopped(g) THEN Finish(g, active_tab, <<>>, "", <<>>)
             ELSE \E sym \in ApiSymbols, pressed \in BOOLEAN,
                     yf \in YFinanceOutcomes :
                  \E o \in IfCalled(pressed, g.cache, "get_historical_data_api",
                                    <<sym, "3mo", "1d">>, now,
                                    Some("get_historical_data_api", {{"data"}})) :
                     Finish(Graficos(g, sym, "3mo", "1d", pressed, o, yf,
                                     api_url, now),
                            2, sym, IF pressed THEN "Actualizar Graficos" ELSE "",
                            <<>>)

RunInformacionDeAccion ==
    /\ runs < MaxRuns
    /\ Through({"get_stock_info", "get_technical_indicators"})
    /\ \E oh \in HealthExchanges :
         LET g == Gate(cache, api_url, oh, now)
         IN  IF Stopped(g) THEN Finish(g, active_tab, <<>>, "", <<>>)
             ELSE \E text \in SymbolInputs, pressed \in BOOLEAN :
                  \E o1 \in IfCalled(pressed /\ text # <<>>, g.cache, "get_stock_info",
                                     <<upper(text)>>, now,
                                     Some("get_stock_info", {{"market_cap"}})),
                     o2 \in IfCalled(pressed /\ text # <<>>, g.cache,
                                     "get_technical_indicators", <<upper(text)>>,
                                     now,
                                     Some("get_technical_indicators", {{"rsi_14"}})) :
                     Finish(InformacionDeAccion(g, text, pressed, o1, o2,
                                                api_url, now),
                            3, text, IF pressed THEN "Obtener Informacion" ELSE "",
                            <<>>)

RunRedditSentiment ==
    /\ runs < MaxRuns
    /\ Through({"get_available_subreddits", "get_reddit_sentiment",
                "get_comprehensive_reddit_analysis", "get_reddit_posts"})
    /\ \E oh \in HealthExchanges :
         LET g == Gate(cache, api_url, oh, now)
         IN  IF Stopped(g) THEN Finish(g, active_tab, <<>>, "", <<>>)
             ELSE \E text \in {<<>>, <<"a">>}, pressed \in BOOLEAN,
                     analysis_type \in {Basico, Comprehensivo},
                     checked \in {{}, {"wallstreetbets", "investing"}} :
                  \E o0 \in Exchanges(g.cache, "get_available_subreddits", <<>>, now,
                                      Some("get_available_subreddits", {})
                                         \ TransportFailures) :
                     LET a == get_available_subreddits(g.cache, api_url, o0, now)
                         selected == selected_subreddits(a.result, analysis_type,
                                                         checked)
                         asked == pressed /\ text # <<>>
                         multi == analysis_type = Comprehensivo /\ selected # <<>>
                     IN  \E o1 \in IF multi
                                   THEN IfCalled(asked, g.cache,
                                            "get_comprehensive_reddit_analysis",
                                            <<upper(text), join(selected, ","), 100>>,
                                            now,
                                            SentimentAnswers(
                                                "get_comprehensive_reddit_analysis"))
                                   ELSE IfCalled(asked, g.cache,
                                            "get_reddit_sentiment",
                                            <<upper(text), 100>>, now,
                                            SentimentAnswers("get_reddit_sentiment")),
                            o2 \in IfCalled(asked /\ ~multi, g.cache,
                                            "get_reddit_posts", <<upper(text), 10>>,
                                            now,
                                            Some("get_reddit_posts", {{"post.title"}})
                                               \ TransportFailures) :
                            Finish(RedditSentiment(g, text, 100, analysis_type,
                                                   checked, pressed, o0, o1, o2,
                                                   api_url, now),
                                   4, text,
                                   IF pressed THEN "Analizar Sentimiento" ELSE "",
                                   <<>>)

RunAnalisisDeTexto ==
    /\ runs < MaxRuns
    /\ Through({"analyze_text_api"})
    /\ \E oh \in HealthExchanges :
         LET g == Gate(cache, api_url, oh, now)
         IN  IF Stopped(g) THEN Finish(g, active_tab, <<>>, "", <<>>)
             ELSE \E text \in TextInputs,
                     button \in {"", "Analizar Texto", "Usar Ejemplo"} :
                  \E o \in IfCalled(button = "Analizar Texto", g.cache,
                                    "analyze_text_api", <<text>>, now,
                                    Some("analyze_text_api", {{"text_stats"}})) :
                     Finish(AnalisisDeTexto(g, text, button, o, api_url, now),
                            5, text, button, <<>>)

RunInformacion ==
    /\ runs < MaxRuns
    /\ Through({"get_model_info"})
    /\ \E oh \in HealthExchanges :
         LET g == Gate(cache, api_url, oh, now)
         IN  IF Stopped(g) THEN Finish(g, active_tab, <<>>, "", <<>>)
             ELSE \E o \in Exchanges(g.cache, "get_model_info", <<>>, now,
                                     Some("get_model_info", {{"version"}})) :
                     Finish(Informacion(g, g.called[1].result.data, o,
                                        api_url, now),
                            6, <<>>, "", <<>>)

\* between runs, time passes: half the TTL of the health check
TickScript == Pass(TTL["check_api_health"] \div 2)

Next ==
    \/ RunPredicciones
    \/ RunAnalisis
    \/ RunGraficos
    \/ RunInformacionDeAccion
    \/ RunRedditSentiment
    \/ RunAnalisisDeTexto
    \/ RunInformacion
    \/ TickScript

Spec == Init /\ [][Next]_vars

(***************************************************************************)
(* Rendering of numbers.  A number of a response is an integer in the unit *)
(* of the last decimal its rendering shows: a percent and an RSI in        *)
(* hundredths (2 is 200, 70.01 is 7001), a sentiment score in thousandths  *)
(* (0.1 is 100), a market capitalisation in thousands of dollars (1e6 is   *)
(* 1000, 1e9 is 10^6, 1e12 is 10^9).  Text is a sequence of characters.    *)
(***************************************************************************)
Digit(d) == <<"0", "1", "2", "3", "4", "5", "6", "7", "8", "9">>[d + 1]

\* the decimal numeral of n >= 0
RECURSIVE Digits(_)
Digits(n) == IF n < 10 THEN <<Digit(n)>> ELSE Append(Digits(n \div 10), Digit(n % 10))

\* the last w digits of n >= 0
RECURSIVE Padded(_, _)
Padded(n, w) == IF w = 0 THEN <<>> ELSE Append(Padded(n \div 10, w - 1), Digit(n % 10))

Abs(n) == IF n < 0 THEN 0 - n ELSE n

Sign(n) == IF n < 0 THEN <<"-">> ELSE <<>>

\* f"{x:.df}" of x = n / 10^d
Fixed(n, d) ==
    Sign(n) \o Digits(Abs(n) \div 10^d) \o <<".">> \o Padded(Abs(n) % 10^d, d)

\* the digits of n >= 0 in groups of three
RECURSIVE Grouped(_)
Grouped(n) ==
    IF n < 1000 THEN Digits(n)
    ELSE Grouped(n \div 1000) \o <<",">> \o Padded(n % 1000, 3)

\* f"{x:,.0f}" of the integer n
GroupedInteger(n) == Sign(n) \o Grouped(Abs(n))

\* n / d rounded to the nearest integer, n >= 0 (the values explored have no tie)
Nearest(n, d) == (n \div d) + (IF 2 * (n % d) >= d THEN 1 ELSE 0)

\* lines 271-275: st.metric("Prediccion (%)", f"{prediction_percent:.2f}%")
PrediccionMetric(pred_pct) == Fixed(pred_pct, 2) \o <<"%">>

create_thermometer_gauge_unclamped(v) ==
    LET normalized_value == v
        sentiment == IF normalized_value > 200 THEN "MUY BULLISH"
                     ELSE IF normalized_value > 0 THEN "BULLISH"
                     ELSE IF normalized_value > -200 THEN "BEARISH"
                     ELSE "MUY BEARISH"
    IN  [sentiment |-> sentiment,
         progress_value |-> <<normalized_value + 1000, 2000>>,
         text |-> Fixed(v, 2) \o <<"%">>]

\* lines 322-354: create_thermometer_gauge(value, symbol): the title, the
\* progress (normalized_value + 10) / 20 as <<numerator, denominator>>, and
\* the number under the bar
create_thermometer_gauge(v) ==
    LET min(a, b) == IF a < b THEN a ELSE b
        max(a, b) == IF a > b THEN a ELSE b
        normalized_value == max(-1000, min(1000, v))
        sentiment == IF normalized_value > 200 THEN "MUY BULLISH"
                     ELSE IF normalized_value > 0 THEN "BULLISH"
                     ELSE IF normalized_value > -200 THEN "BEARISH"
                     ELSE "MUY BEARISH"
    IN  [sentiment |-> sentiment,
         progress_value |-> <<normalized_value + 1000, 2000>>,
         text |-> Fixed(v, 2) \o <<"%">>]

Interpretacion_upper_inclusive(pred_pct) ==
    IF pred_pct >= 200 THEN <<"success", "Tendencia Alcista Fuerte">>
    ELSE IF pred_pct > 0 THEN <<"info", "Tendencia Alcista">>
    ELSE IF pred_pct > -200 THEN <<"warning", "Tendencia Bajista">>
    ELSE <<"error", "Tendencia Bajista Fuerte">>

Interpretacion_lower_inclusive(pred_pct) ==
    IF pred_pct > 200 THEN <<"success", "Tendencia Alcista Fuerte">>
    ELSE IF pred_pct > 0 THEN <<"info", "Tendencia Alcista">>
    ELSE IF pred_pct >= -200 THEN <<"warning", "Tendencia Bajista">>
    ELSE <<"error", "Tendencia Bajista Fuerte">>

\* lines 379-386: the interpretation of the prediction: the element and its band
Interpretacion(pred_pct) ==
    IF pred_pct > 200 THEN <<"success", "Tendencia Alcista Fuerte">>
    ELSE IF pred_pct > 0 THEN <<"info", "Tendencia Alcista">>
    ELSE IF pred_pct > -200 THEN <<"warning", "Tendencia Bajista">>
    ELSE <<"error", "Tendencia Bajista Fuerte">>

RsiInterpretation_inclusive(v) ==
    LET rsi == IF v.absent THEN 5000 ELSE v.n
    IN  IF rsi >= 7000 THEN <<"warning", "RSI indica sobrecompra (>70)">>
        ELSE IF rsi <= 3000 THEN <<"info", "RSI indica sobreventa (<30)">>
        ELSE <<"success", "RSI en rango neutral">>

\* lines 802-808: the interpretation of technical_indicators.get('rsi_14', 50)
RsiInterpretation(v) ==
    LET rsi == IF v.absent THEN 5000 ELSE v.n
    IN  IF rsi > 7000 THEN <<"warning", "RSI indica sobrecompra (>70)">>
        ELSE IF rsi < 3000 THEN <<"info", "RSI indica sobreventa (<30)">>
        ELSE <<"success", "RSI en rango neutral">>

\* line 788: st.metric("RSI (14)", f"{technical_indicators.get('rsi_14', 0):.2f}")
RsiMetric(v) == Fixed(IF v.absent THEN 0 ELSE v.n, 2)

market_cap_formatted_strict(v) ==
    IF ~v.absent /\ v.n # 0
    THEN IF v.n > 10^9 THEN <<"$">> \o Fixed(Nearest(v.n, 10^8), 1) \o <<"T">>
         ELSE IF v.n > 10^6 THEN <<"$">> \o Fixed(Nearest(v.n, 10^5), 1) \o <<"B">>
         ELSE IF v.n > 1000 THEN <<"$">> \o Fixed(Nearest(v.n, 100), 1) \o <<"M">>
         ELSE <<"$">> \o GroupedInteger(v.n * 1000)
    ELSE <<"N", "/", "A">>

\* lines 765-777 (and 425-438): the text of stock_info.get('market_cap')
market_cap_formatted(v) ==
    IF ~v.absent /\ v.n # 0
    THEN IF v.n >= 10^9 THEN <<"$">> \o Fixed(Nearest(v.n, 10^8), 1) \o <<"T">>
         ELSE IF v.n >= 10^6 THEN <<"$">> \o Fixed(Nearest(v.n, 10^5), 1) \o <<"B">>
         ELSE IF v.n >= 1000 THEN <<"$">> \o Fixed(Nearest(v.n, 100), 1) \o <<"M">>
         ELSE <<"$">> \o GroupedInteger(v.n * 1000)
    ELSE <<"N", "/", "A">>

\* lines 425-438: the copy of the formatter in the comparative view
market_cap_str(v) ==
    IF ~v.absent /\ v.n # 0
    THEN IF v.n >= 10^9 THEN <<"$">> \o Fixed(Nearest(v.n, 10^8), 1) \o <<"T">>
         ELSE IF v.n >= 10^6 THEN <<"$">> \o Fixed(Nearest(v.n, 10^5), 1) \o <<"B">>
         ELSE IF v.n >= 1000 THEN <<"$">> \o Fixed(Nearest(v.n, 100), 1) \o <<"M">>
         ELSE <<"$">> \o GroupedInteger(v.n * 1000)
    ELSE <<"N", "/", "A">>

subreddit_sentiment_by_label(sentiment_label, v) ==
    IF sentiment_label = "bullish" THEN "success"
    ELSE IF sentiment_label = "bearish" THEN "error"
    ELSE "info"

\* lines 1170-1176: the element that shows analysis.get('sentiment_score', 0)
\* of one subreddit, inside the rendering of a response whose aggregate label
\* is sentiment_label
subreddit_sentiment(sentiment_label, v) ==
    LET score == IF v.absent THEN 0 ELSE v.n
    IN  IF score > 100 THEN "success"
        ELSE IF score < -100 THEN "error"
        ELSE "info"

\* the numbers explored, each read in the unit of the rendering applied to it
Numbers ==
    {-1500, -1001, -1000, -201, -200, -199, -101, -100, -99, -1, 0, 1, 5, 99,
     100, 101, 199, 200, 201, 350, 999, 1000, 1001, 1500, 2999, 3000, 3001,
     5000, 6999, 7000, 7001, 999999, 10^6, 10^6 + 1, 1500000, 10^9 - 1, 10^9,
     10^9 + 1, 1500000000}

Values == {[absent |-> FALSE, n |-> x] : x \in Numbers} \cup {NoValue}

SentimentLabels == {"bullish", "bearish", "neutral"}

InitValues ==
    /\ now = 0
    /\ api_url = API_BASE_URL
    /\ cache = [op \in Ops |-> {}]
    /\ called = <<>>
    /\ http = <<>>
    /\ active_tab = 0
    /\ entered = <<>>
    /\ clicked = ""
    /\ page = {}
    /\ table = <<>>
    /\ fatal = FALSE
    /\ runs = 0
    /\ value \in Values
    /\ shown = NothingShown
    /\ session = NoSessions

\* the effect of rendering the number
Shows(what, kind, label, text, progress) ==
    /\ shown' = [what |-> what, kind |-> kind, label |-> label, text |-> text,
                 progress |-> progress]
    /\ UNCHANGED <<now, api_url, cache, called, http, active_tab, entered, clicked,
                   page, table, fatal, runs, value, session>>

\* lines 271-275 and 379-386 on prediction_data['prediction_percent']
ShowPrediccion ==
    IF value.absent
    THEN Shows("prediction_percent", "exception", "KeyError", <<>>, <<0, 1>>)
    ELSE Shows("prediction_percent", Interpretacion(value.n)[1],
               Interpretacion(value.n)[2], PrediccionMetric(value.n), <<0, 1>>)

\* line 374: create_thermometer_gauge(pred_pct, symbol)
ShowGauge ==
    /\ ~value.absent
    /\ LET g == create_thermometer_gauge(value.n)
       IN  Shows("gauge", "progress", g.sentiment, g.text, g.progress_value)

\* lines 788 and 802-808 on technical_indicators.get('rsi_14')
ShowRsi ==
    Shows("rsi_14", RsiInterpretation(value)[1], RsiInterpretation(value)[2],
          RsiMetric(value), <<0, 1>>)

\* lines 765-777 on stock_info.get('market_cap')
ShowMarketCap ==
    Shows("market_cap", "metric", "Capitalizacion de Mercado",
          market_cap_formatted(value), <<0, 1>>)

\* lines 1170-1178 on analysis.get('sentiment_score') of a subreddit
ShowSubredditSentiment ==
    \E sentiment_label \in SentimentLabels :
        Shows("sentiment_score", subreddit_sentiment(sentiment_label, value),
              sentiment_label,
              Fixed(IF value.absent THEN 0 ELSE value.n, 3), <<0, 1>>)

NextValues ==
    \/ ShowPrediccion
    \/ ShowGauge
    \/ ShowRsi
    \/ ShowMarketCap
    \/ ShowSubredditSentiment

SpecValues == InitValues /\ [][NextValues]_vars

(***************************************************************************)
(* Properties of the API layer (checked under SpecApi).                    *)
(***************************************************************************)
\* the call the step just taken made, if it made one
IsCall(c, op) == c # <<>> /\ c[1].op = op

\* C1: two calls of get_prediction(s, b) within the cache TTL (600 s) of each
\* other issue exactly one request to /predict/{s}: the call that finds no
\* entry sends one request, and a call that finds an entry of the same (s, b)
\* younger than the TTL sends none and returns the value that entry's call
\* returned.
C1_PredictOncePerTTL ==
    [][IsCall(called', "get_prediction") =>
         LET k == called'[1].key
             live == {e \in cache["get_prediction"] :
                         e.key = k /\ now - e.at < 600}
         IN  IF live # {}
             THEN /\ http' = <<>>
                  /\ \A e \in live : called'[1].result = e.val
             ELSE /\ Len(http') = 1
                  /\ http'[1].path = "/predict/{symbol}"
                  /\ http'[1].args = k
                  /\ called'[1].result \in
                         {None} \cup {Json(api_url, fs) : fs \in SUBSET Fields["get_prediction"]}]_vars

\* a second call of get_prediction was answered with the JSON body the first
\* one fetched, after time has passed
C1_Witness ==
    /\ IsCall(called, "get_prediction")
    /\ called[1].hit
    /\ called[1].result.kind = "json"
    /\ now > 0
    /\ http = <<>>

\* C2: each of the eleven operations returns the parsed JSON body when the
\* status is 200 and the body parses, and the absent sentinel (None, or
\* (False, None) for the health check) on any other status, on a failed
\* transport and on a body that does not parse; no exception leaves it.
C2_JsonOrSentinel ==
    \A i \in DOMAIN called :
        LET c == called[i]
            o == c.outcome
            good == o.transport = "ok" /\ o.status = 200 /\ o.parses
        IN  ~c.hit =>
              IF c.op = "check_api_health"
              THEN c.result = IF good
                              THEN [healthy |-> TRUE, data |-> Json(c.url, o.fields)]
                              ELSE [healthy |-> FALSE, data |-> None]
              ELSE c.result = IF good THEN Json(c.url, o.fields) ELSE None

\* an operation met a 200 whose body does not parse and returned None
C2_Witness ==
    /\ IsCall(called, "get_historical_data_api")
    /\ ~called[1].hit
    /\ called[1].outcome.status = 200
    /\ ~called[1].outcome.parses
    /\ called[1].result = None

\* C3: a value cached while the base URL was U1 is never returned for a call
\* made while the base URL is U2 # U1: every JSON body a call returns was
\* served by the base URL in force at the call.
C3_CacheKeyedByBaseUrl ==
    \A i \in DOMAIN called :
        LET c == called[i]
            body == IF c.op = "check_api_health" THEN c.result.data ELSE c.result
        IN  body.kind = "json" => body.from = c.url

\* C4: an entry expires by the time elapsed since the request that populated
\* it: a call made more than the operation's TTL after that request sends the
\* request again, a call answered from the cache leaves the entry and its
\* time as they were, and no step removes an entry that is younger than its
\* TTL.
ClaimedTTL ==
    [check_api_health |-> 60, get_prediction |-> 600, get_model_info |-> 3600,
     get_stock_info |-> 600, get_technical_indicators |-> 300,
     get_reddit_sentiment |-> 300, get_comprehensive_reddit_analysis |-> 300,
     get_available_subreddits |-> 3600, analyze_text_api |-> 60,
     get_reddit_posts |-> 300, get_historical_data_api |-> 300]

C4_ExpiryByAgeOnly ==
    [][/\ \A op \in Ops : \A e \in cache[op] :
             now' - e.at < ClaimedTTL[op] => e \in cache'[op]
       /\ called' # <<>> =>
             LET c == called'[1]
                 old == {e \in cache[c.op] : e.key = c.key}
             IN  /\ c.hit => cache' = cache
                 /\ (\E e \in old : now - e.at > ClaimedTTL[c.op]) =>
                        /\ ~c.hit
                        /\ Len(http') = 1
                        /\ \E e \in cache'[c.op] : e.key = c.key /\ e.at = now]_vars

\* the model information was fetched again, one and a half TTLs after the
\* request that had populated its entry
C4_Witness ==
    /\ IsCall(called, "get_model_info")
    /\ ~called[1].hit
    /\ Len(http) = 1
    /\ now > 3600

(***************************************************************************)
(* Properties of the script runs (checked under Spec).                     *)
(***************************************************************************)
\* the exchange of call c ended in a status other than 200 or never connected
Failed(c) ==
    ~c.hit /\ (c.outcome.transport # "ok" \/ c.outcome.status # 200)

\* the JSON body call c returned, None when it returned none
Body(c) == IF c.op = "check_api_health" THEN c.result.data ELSE c.result

\* C5: whenever an operation of the run returned the JSON object of a 200
\* response that lacks some of the fields the views read, the run renders to
\* its end without an uncaught exception.
C5_AbsentFieldsDefaulted ==
    \A i \in DOMAIN called :
        (Body(called[i]).kind = "json"
            /\ Body(called[i]).fields # Fields[called[i].op]) => ~fatal

\* the messages with which the views report that data could not be obtained
UnavailableNotices ==
    {<<"error", "No se pudo conectar con la API.", "">>,
     <<"error", "No se pudo obtener la prediccion.", "">>,
     <<"error", "Error obteniendo prediccion", "">>,
     <<"error", "No se pudieron obtener predicciones para ningun simbolo.", "">>,
     <<"cell", "Informacion no disponible", "">>,
     <<"warning", "Usando datos de yfinance como respaldo", "">>,
     <<"error", "No se pudo analizar el texto.", "">>,
     <<"error", "No se pudo obtener el analisis de sentimiento.", "">>}

\* C6: in a run that renders to its end, whenever an exchange ended in a
\* status other than 200 or in a failed connection, the page carries a
\* message that reports data as unavailable.
C6_FailureShowsUnavailable ==
    \A i \in DOMAIN called :
        (Failed(called[i]) /\ ~fatal) => page \cap UnavailableNotices # {}

\* the statements that display each operation's data
Widget ==
    [op \in Ops |->
        CASE op = "get_prediction" -> {PrediccionSteps, PredictionRowSteps}
          [] op = "get_stock_info" -> {StockInfoSteps, StockInfoCellSteps}
          [] op = "get_technical_indicators" -> {IndicatorSteps}
          [] op = "get_reddit_sentiment" -> {BasicSteps, ComprehensiveSteps}
          [] op = "get_comprehensive_reddit_analysis" ->
                 {BasicSteps, ComprehensiveSteps}
          [] op = "get_reddit_posts" -> {PostSteps}
          [] op = "analyze_text_api" -> {TextoSteps}
          [] op = "get_historical_data_api" -> {HistorySteps}
          [] op = "get_model_info" -> {ModelInfoSteps}
          [] OTHER -> {}]

\* some statement that displays op's data has put its element on the page
Displayed(op) ==
    \E steps \in Widget[op] : \E k \in DOMAIN steps :
        \E source \in {"value", "default"} :
            <<steps[k][3], steps[k][4], source>> \in page

\* the operations a button fetches from
Fetched == Ops \ {"check_api_health", "get_available_subreddits"}

\* the views whose button feeds two widgets from two endpoints: Informacion
\* de Accion (company, indicators) and Reddit Sentiment (sentiment, posts)
TwoWidgetViews == {3, 4}

\* C7: in a run of such a view that renders to its end, whenever one fetched
\* operation failed and the other returned a non-empty JSON object, the data
\* of the one that returned is displayed.
C7_SiblingsUnaffected ==
    \A i, j \in DOMAIN called :
        (/\ active_tab \in TwoWidgetViews
         /\ i # j
         /\ called[i].op \in Fetched
         /\ called[j].op \in Fetched
         /\ Failed(called[j])
         /\ Truthy(called[i].result)
         /\ ~fatal) => Displayed(called[i].op)

\* the message of the health gate
GateError == <<"error", "No se pudo conectar con la API.", "">>

\* C8: every script run evaluates the health check first and once; a run
\* whose health check reports unhealthy calls no other operation, sends no
\* request but the health check's, renders nothing but the gate's error,
\* and leaves the selected tab and the other operations' caches as they were.
\* So a run that renders a view or calls another operation is one whose
\* health check reported healthy.
C8_HealthGate ==
    [][runs' = runs + 1 =>
         /\ called' # <<>>
         /\ called'[1].op = "check_api_health"
         /\ \A i \in 2..Len(called') : called'[i].op # "check_api_health"
         /\ ~called'[1].result.healthy =>
                /\ Len(called') = 1
                /\ \A i \in DOMAIN http' : http'[i].path = "/health"
                /\ page' = {GateError}
                /\ clicked' = ""
                /\ active_tab' = active_tab
                /\ \A op \in Ops \ {"check_api_health"} : cache'[op] = cache[op]]_vars

\* a second run within the TTL of an unhealthy answer is stopped by it
C8_Witness ==
    /\ runs = 2
    /\ called # <<>>
    /\ ~called[1].result.healthy
    /\ called[1].hit
    /\ page = {GateError}

\* the views that take a symbol: Predicciones, Analisis, Informacion de
\* Accion, Reddit Sentiment
SymbolViews == {0, 1, 3, 4}

\* the input of a symbol view names no symbol
Blank(tab, text) ==
    IF tab = 1 THEN \A i \in DOMAIN split(text, ",") :
                        strip(split(text, ",")[i]) = <<>>
    ELSE strip(text) = <<>>

\* C9: in a symbol view, a run in which the button is pressed while the
\* input is blank sends no request for a symbol (none but the health check's
\* and the list of subreddits the Reddit view loads on every run) and shows
\* the warning that asks for a symbol.
C9_BlankSymbolRejected ==
    (active_tab \in SymbolViews /\ clicked # "" /\ Blank(active_tab, entered)) =>
        /\ \A i \in DOMAIN called : called[i].op \notin Fetched
        /\ <<"warning", "Por favor ingresa un simbolo valido.", "">> \in page

\* the warning of the Analisis de Texto view
TextWarning ==
    <<"warning", "Por favor ingresa un texto valido (minimo 3 caracteres).", "">>

\* C10: in the Analisis de Texto view, a run in which Analizar Texto is
\* pressed with a text whose length after trimming is below 3 does not call
\* analyze_text_api, sends no request to /reddit/analyze-text and shows the
\* warning.
C10_ShortTextRejected ==
    (active_tab = 5 /\ clicked = "Analizar Texto" /\ Len(strip(entered)) < 3) =>
        /\ \A i \in DOMAIN called : called[i].op # "analyze_text_api"
        /\ \A i \in DOMAIN http : http[i].path # "/reddit/analyze-text"
        /\ TextWarning \in page

\* Analizar Texto was pressed with four characters of which one is not
\* white space, and the warning was shown
C10_Witness ==
    /\ active_tab = 5
    /\ clicked = "Analizar Texto"
    /\ entered = <<" ", "a", " ", " ">>
    /\ TextWarning \in page
    /\ Len(called) = 1

\* C11: in the Analisis de Texto view, a run in which Analizar Texto is
\* pressed with a text whose length after trimming is at least 3 calls
\* analyze_text_api and does not show the "minimo 3 caracteres" warning.
C11_ThreeCharactersAccepted ==
    (active_tab = 5 /\ clicked = "Analizar Texto" /\ Len(strip(entered)) >= 3) =>
        /\ \E i \in DOMAIN called : called[i].op = "analyze_text_api"
        /\ TextWarning \notin page

(***************************************************************************)
(* Properties of the rendering of numbers (checked under SpecValues).      *)
(***************************************************************************)
\* the interpretation of the prediction value.n has been rendered
PredictionShown == shown.what = "prediction_percent" /\ ~value.absent

\* C12: the band of the interpretation is a total function of the percent p
\* (in hundredths): p > 2 gives strong bullish, 0 < p <= 2 bullish,
\* -2 < p <= 0 bearish, p <= -2 strong bearish.
C12_PredictionBands ==
    PredictionShown =>
        LET p == value.n
        IN  /\ p > 200 => shown.label = "Tendencia Alcista Fuerte"
            /\ (0 < p /\ p <= 200) => shown.label = "Tendencia Alcista"
            /\ (-200 < p /\ p <= 0) => shown.label = "Tendencia Bajista"
            /\ p <= -200 => shown.label = "Tendencia Bajista Fuerte"

\* a prediction of 0 percent was interpreted as bearish
C12_Witness ==
    PredictionShown /\ value.n = 0 /\ shown.label = "Tendencia Bajista"

\* C13 as stated: p = 2.0 is bullish and p = -2.0 is bearish.
C13_BoundariesAsStated ==
    PredictionShown =>
        /\ value.n = 200 => shown.label = "Tendencia Alcista"
        /\ value.n = -200 => shown.label = "Tendencia Bajista"

\* C13, amended: p = 2.0 is bullish (not strong bullish) and p = -2.0 is strong
\* bearish (not bearish).
C13_Boundaries ==
    PredictionShown =>
        /\ value.n = 200 => shown.label = "Tendencia Alcista"
        /\ value.n = -200 => shown.label = "Tendencia Bajista Fuerte"

\* a prediction of -2.0 percent was interpreted as strong bearish
C13_Witness ==
    PredictionShown /\ value.n = -200 /\ shown.label = "Tendencia Bajista Fuerte"

\* C14: a positive prediction_percent is shown in the strong-bullish or
\* bullish band and its text carries a leading plus sign and two decimals;
\* 3.5 is strong bullish and shown as "+3.50%".
C14_PositiveShownWithPlus ==
    (PredictionShown /\ value.n > 0) =>
        /\ shown.label = IF value.n > 200 THEN "Tendencia Alcista Fuerte"
                         ELSE "Tendencia Alcista"
        /\ Head(shown.text) = "+"
        /\ value.n = 350 => shown.text = <<"+", "3", ".", "5", "0", "%">>

\* C15: the progress of the gauge is (min(10, max(-10, p)) + 10) / 20, it lies
\* in [0, 1], and the gauge's title is in the band the four-tier banding gives
\* the raw p.
C15_GaugeClampedAndBanded ==
    shown.what = "gauge" =>
        LET p == value.n
            clamped == IF p > 1000 THEN 1000 ELSE IF p < -1000 THEN -1000 ELSE p
        IN  /\ shown.progress = <<clamped + 1000, 2000>>
            /\ 0 <= shown.progress[1]
            /\ shown.progress[1] <= shown.progress[2]
            /\ shown.label = IF p > 200 THEN "MUY BULLISH"
                             ELSE IF p > 0 THEN "BULLISH"
                             ELSE IF p > -200 THEN "BEARISH"
                             ELSE "MUY BEARISH"

\* the gauge of 15 percent is full and strong bullish
C15_Witness ==
    /\ shown.what = "gauge"
    /\ value.n = 1500
    /\ shown.progress = <<2000, 2000>>
    /\ shown.label = "MUY BULLISH"

\* C16: rsi > 70 gives the overbought warning, rsi < 30 the oversold notice,
\* anything else neutral; 70.0 and 30.0 are neutral, 70.01 is overbought.
C16_RsiBands ==
    (shown.what = "rsi_14" /\ ~value.absent) =>
        LET rsi == value.n
        IN  /\ rsi > 7000 => /\ shown.kind = "warning"
                             /\ shown.label = "RSI indica sobrecompra (>70)"
            /\ rsi < 3000 => /\ shown.kind = "info"
                             /\ shown.label = "RSI indica sobreventa (<30)"
            /\ (3000 <= rsi /\ rsi <= 7000) =>
                   /\ shown.kind = "success"
                   /\ shown.label = "RSI en rango neutral"

\* an RSI of exactly 70.0 was shown as neutral
C16_Witness ==
    /\ shown.what = "rsi_14"
    /\ value = [absent |-> FALSE, n |-> 7000]
    /\ shown.label = "RSI en rango neutral"

\* the text is digits in groups of three separated by commas
IsGroupedNumeral(t) ==
    /\ t # <<>>
    /\ \A i \in DOMAIN t :
          IF (Len(t) - i + 1) % 4 = 0 THEN t[i] = ","
          ELSE t[i] \in {"0", "1", "2", "3", "4", "5", "6", "7", "8", "9"}
    /\ (Len(t) > 1 => Head(t) # "0")

\* the text is "$", a numeral with one decimal, and the suffix
IsInUnit(t, suffix) ==
    /\ Len(t) >= 5
    /\ Head(t) = "$"
    /\ t[Len(t)] = suffix
    /\ t[Len(t) - 2] = "."
    /\ \A i \in 2..(Len(t) - 1) :
          i # Len(t) - 2 => t[i] \in {"0", "1", "2", "3", "4", "5", "6", "7", "8", "9"}

\* C17: the market capitalisation m (in thousands of dollars) is shown in
\* trillions with one decimal and T when m >= 10^12, in billions with B when
\* 10^9 <= m < 10^12, in millions with M when 10^6 <= m < 10^9, as the
\* integer with thousands separators when 0 < m < 10^6, and as "N/A" when
\* absent or zero; 1e12, 1e9 and 1e6 themselves select the larger unit.
C17_MarketCapUnits ==
    shown.what = "market_cap" =>
        LET m == value.n
            t == shown.text
        IN  /\ (value.absent \/ m = 0) => t = <<"N", "/", "A">>
            /\ ~value.absent =>
                  /\ m >= 10^9 => IsInUnit(t, "T")
                  /\ (10^6 <= m /\ m < 10^9) => IsInUnit(t, "B")
                  /\ (1000 <= m /\ m < 10^6) => IsInUnit(t, "M")
                  /\ (0 < m /\ m < 1000) =>
                        Head(t) = "$" /\ IsGroupedNumeral(Tail(t))
                  /\ m = 10^9 => t = <<"$", "1", ".", "0", "T">>
                  /\ m = 10^6 => t = <<"$", "1", ".", "0", "B">>
                  /\ m = 1000 => t = <<"$", "1", ".", "0", "M">>

\* a capitalisation of exactly 1e12 was shown as $1.0T
C17_Witness ==
    /\ shown.what = "market_cap"
    /\ value = [absent |-> FALSE, n |-> 10^9]
    /\ shown.text = <<"$", "1", ".", "0", "T">>

\* C19: the element that shows a subreddit's sentiment is determined by that
\* subreddit's own sentiment_score (in thousandths): above 0.1 it is the
\* bullish element (st.success), below -0.1 the bearish one (st.error), from
\* -0.1 to 0.1 the neutral one (st.info), whatever the aggregate
\* sentiment_label of the response.
C19_SubredditStateByOwnScore ==
    shown.what = "sentiment_score" =>
        LET score == IF value.absent THEN 0 ELSE value.n
        IN  /\ shown.label \in SentimentLabels
            /\ score > 100 => shown.kind = "success"
            /\ score < -100 => shown.kind = "error"
            /\ (-100 <= score /\ score <= 100) => shown.kind = "info"

\* a subreddit scoring 0.101 was shown as bullish in a response whose
\* aggregate label is bearish
C19_Witness ==
    /\ shown.what = "sentiment_score"
    /\ value = [absent |-> FALSE, n |-> 101]
    /\ shown.label = "bearish"
    /\ shown.kind = "success"

(***************************************************************************)
(* Properties of the Reddit Sentiment view and of request paths (checked   *)
(* under Spec).                                                            *)
(***************************************************************************)
\* the two operations that return a sentiment analysis
SentimentOps == {"get_reddit_sentiment", "get_comprehensive_reddit_analysis"}

\* the elements a list of display statements puts on the page
ElementsOf(steps) == {<<steps[k][3], steps[k][4]>> : k \in DOMAIN steps}

\* the elements on the page, without where their value came from
OnPage == {<<e[1], e[2]>> : e \in page}

\* the page carries every element of steps and none that only other has
\* (the list of posts, rendered after either layout, has elements of its own)
RenderedAs(steps, other) ==
    /\ ElementsOf(steps) \subseteq OnPage
    /\ (ElementsOf(other) \ (ElementsOf(steps) \cup ElementsOf(PostSteps)))
           \cap OnPage = {}

SymbolOps == {op \in Ops : op \notin {"check_api_health", "get_model_info", "get_available_subreddits", "analyze_text_api"}}

\* the paths that embed a symbol; the symbol is the request's first argument
SymbolPaths == {Endpoint[op][2] : op \in SymbolOps}

\* the lowercase letters of the texts explored
LowerCase == {"a", "b"}

\* the symbols the user's input stands for in view tab: the pieces between
\* commas, trimmed, in the comparative view; the whole input elsewhere
TypedSymbols(tab, text) ==
    IF tab = 1
    THEN {strip(piece) : piece \in {split(text, ",")[i] : i \in DOMAIN split(text, ",")}}
    ELSE {text}

\* C20: the symbol of every request whose path embeds one is the uppercase
\* form of what the user typed or selected in the run's view, and contains
\* no lowercase letter.
C20_SymbolsUppercased ==
    \A i \in DOMAIN http :
        http[i].path \in SymbolPaths =>
            /\ \E typed \in TypedSymbols(active_tab, entered) :
                   http[i].args[1] = upper(typed)
            /\ \A k \in DOMAIN http[i].args[1] :
                   http[i].args[1][k] \notin LowerCase

\* the comparative view, given "a, b", requested the prediction of B
C20_Witness ==
    /\ active_tab = 1
    /\ entered = <<"a", ",", " ", "b">>
    /\ \E i \in DOMAIN http :
           /\ http[i].path = "/predict/{symbol}"
           /\ http[i].args[1] = <<"B">>

(***************************************************************************)
(* Properties of the Graficos view (checked under Spec).                   *)
(***************************************************************************)
\* the chart drawn from the API's history is on the page
ApiChartShown == <<"chart", "Precios Historicos", "value">> \in page

\* the chart drawn from the yfinance frame is on the page
FallbackChartShown == <<"chart", "Precios Historicos (30 dias)", "">> \in page

\* the prompt to press the button is on the page
PromptShown == <<"info", "Haz clic en 'Actualizar Graficos'", "">> \in page

\* C21: after a run of the Graficos view that displayed the series fetched
\* from the API, a following run of the view with the same inputs and the
\* button not pressed still displays that series.
C21_SeriesKeptAcrossRuns ==
    [][(/\ active_tab = 2 /\ ApiChartShown
        /\ runs' = runs + 1
        /\ active_tab' = 2 /\ entered' = entered /\ clicked' = "")
           => ApiChartShown']_vars

(***************************************************************************)
(* The operator and the base URL.                                          *)
(***************************************************************************)
\* lines 24 and 32: the script reads no input for the base URL; every run
\* executes api_url = API_BASE_URL, whatever deployment the operator of the
\* running application wants it to use.  A run of the Informacion view by an
\* operator who wants the requests sent to wanted (recorded in entered).
RunConfigured ==
    /\ runs < MaxRuns
    /\ Through({"get_model_info"})
    /\ \E wanted \in Urls :
         LET url == API_BASE_URL
         IN  \E oh \in Exchanges(cache, "check_api_health", <<url>>, now,
                                 Some("check_api_health", {})) :
                LET g == Gate(cache, url, oh, now)
                IN  IF Stopped(g) THEN Finish(g, active_tab, <<wanted>>, "", <<>>)
                    ELSE \E o \in Exchanges(g.cache, "get_model_info", <<>>, now,
                                            Some("get_model_info", {{"version"}})) :
                            Finish(Informacion(g, g.called[1].result.data, o,
                                               url, now),
                                   6, <<wanted>>, "", <<>>)

NextConfig ==
    \/ RunConfigured
    \/ TickScript

SpecConfig == Init /\ [][NextConfig]_vars

\* C22: the operator can change the base URL while the application runs, and
\* every request issued after that is sent to the newly configured base URL:
\* the requests of a run go to the base URL the operator wants.
C22_RequestsToConfiguredUrl ==
    \A i \in DOMAIN http : entered # <<>> => http[i].base = entered[1]

(***************************************************************************)
(* Concurrent sessions calling one cached operation (get_prediction,       *)
(* lines 60-75).  A call of a function under st.cache_data reads the cache; *)
(* on a miss it takes the lock of the key, reads the cache again, and only *)
(* then runs the function body and stores its value.  called and http      *)
(* accumulate here: the calls completed and the requests sent so far.      *)
(***************************************************************************)
\* calls begun in one behaviour
MaxCalls == 3

\* the keys the sessions call get_prediction with
ConcurrentKeys == {<<<<"A">>, TRUE>>, <<<<"B">>, TRUE>>}

\* a variant without the lock of the key
compute_value_lock_free_always(s, key) == TRUE

\* the lock of key is free for session s: no other session holds it
compute_value_lock_free(s, key) ==
    \A p \in Sessions \ {s} : ~(session[p].pc = "computing" /\ session[p].key = key)

\* the record of a call of get_prediction that returned val
Returned(key, hit, val, o) ==
    [op |-> "get_prediction", key |-> key, url |-> api_url, at |-> now,
     hit |-> hit, result |-> val, outcome |-> IF hit THEN NoExchange ELSE o]

\* session s calls get_prediction(key): the value is read from the cache, or
\* the cache has no fresh entry and s goes for the lock
BeginCall(s) ==
    /\ runs < MaxCalls
    /\ session[s].pc = "idle"
    /\ \E key \in ConcurrentKeys :
         LET hits == Fresh(cache, "get_prediction", key, now)
         IN  IF hits # {}
             THEN /\ called' = Append(called,
                         Returned(key, TRUE, (CHOOSE e \in hits : TRUE).val, NoExchange))
                  /\ session' = [session EXCEPT ![s] =
                         [pc |-> "idle", key |-> key, last |-> "hit"]]
             ELSE /\ called' = called
                  /\ session' = [session EXCEPT ![s] =
                         [pc |-> "missed", key |-> key, last |-> ""]]
    /\ runs' = runs + 1
    /\ UNCHANGED <<now, api_url, cache, http, active_tab, entered, clicked, page,
                   table, fatal, value, shown>>

\* s takes the lock of its key and reads the cache again: the value another
\* session stored meanwhile is returned and the lock released; otherwise the
\* function body starts and sends its request
TakeLock(s) ==
    /\ session[s].pc = "missed"
    /\ compute_value_lock_free(s, session[s].key)
    /\ LET key == session[s].key
           hits == Fresh(cache, "get_prediction", key, now)
       IN  IF hits # {}
           THEN /\ called' = Append(called,
                       Returned(key, TRUE, (CHOOSE e \in hits : TRUE).val, NoExchange))
                /\ http' = http
                /\ session' = [session EXCEPT ![s] =
                       [pc |-> "idle", key |-> key, last |-> "hit after the lock"]]
           ELSE /\ called' = called
                /\ http' = Append(http, Request("get_prediction", api_url, key))
                /\ session' = [session EXCEPT ![s] =
                       [pc |-> "computing", key |-> key, last |-> ""]]
    /\ UNCHANGED <<now, api_url, cache, active_tab, entered, clicked, page, table,
                   fatal, runs, value, shown>>

\* the exchange of s ends: the body returns, the value is stored, the lock
\* released
EndCall(s) ==
    /\ session[s].pc = "computing"
    /\ \E o \in Some("get_prediction", {}) :
         LET key == session[s].key
             v == JsonOrNone(o, api_url)
         IN  /\ cache' = [cache EXCEPT !["get_prediction"] =
                             {e \in @ : e.key # key}
                                \cup {[key |-> key, val |-> v, at |-> now,
                                       said |-> Said("get_prediction", o)]}]
             /\ called' = Append(called, Returned(key, FALSE, v, o))
             /\ session' = [session EXCEPT ![s] =
                    [pc |-> "idle", key |-> key, last |-> "computed"]]
    /\ UNCHANGED <<now, api_url, http, active_tab, entered, clicked, page, table,
                   fatal, runs, value, shown>>

\* half the TTL passes while no request is in flight (a request ends within
\* its timeout of 30 s)
TickConcurrent ==
    /\ \A s \in Sessions : session[s].pc # "computing"
    /\ now + TTL["get_prediction"] \div 2 <= MaxTicks * (TTL["get_prediction"] \div 2)
    /\ now' = now + TTL["get_prediction"] \div 2
    /\ UNCHANGED <<api_url, cache, called, http, active_tab, entered, clicked, page,
                   table, fatal, runs, value, shown, session>>

NextConcurrent ==
    \/ \E s \in Sessions : BeginCall(s)
    \/ \E s \in Sessions : TakeLock(s)
    \/ \E s \in Sessions : EndCall(s)
    \/ TickConcurrent

SpecConcurrent == Init /\ [][NextConcurrent]_vars

\* C23: calls of one operation with one key that overlap within a TTL window
\* send at most one request, and all return the same cached value: no two
\* sessions run the body for one key at a time; the requests sent for one key
\* are a TTL apart; no request is in flight for a key whose entry is fresh;
\* and every call answered from the cache returns the value of the latest
\* request for its key, made less than a TTL before.
C23_OneRequestPerKeyAndWindow ==
    /\ \A s, p \in Sessions :
           (s # p /\ session[s].pc = "computing" /\ session[p].pc = "computing")
               => session[s].key # session[p].key
    /\ \A i, j \in DOMAIN called :
           (i < j /\ ~called[i].hit /\ ~called[j].hit /\ called[i].key = called[j].key)
               => called[j].at - called[i].at >= TTL["get_prediction"]
    /\ \A s \in Sessions : \A i \in DOMAIN called :
           (session[s].pc = "computing" /\ ~called[i].hit
                /\ called[i].key = session[s].key)
               => now - called[i].at >= TTL["get_prediction"]
    /\ \A j \in DOMAIN called :
           called[j].hit =>
               \E i \in 1..(j - 1) :
                   /\ ~called[i].hit /\ called[i].key = called[j].key
                   /\ \A k \in (i + 1)..(j - 1) :
                          called[k].hit \/ called[k].key # called[j].key
                   /\ called[j].result = called[i].result
                   /\ called[j].at - called[i].at < TTL["get_prediction"]

\* two sessions called with one key at one time: one sent the request, the
\* other waited for the lock and returned the value the first stored
C23_Witness ==
    /\ session["s1"].last = "computed"
    /\ session["s2"].last = "hit after the lock"
    /\ session["s1"].key = session["s2"].key
    /\ Len(http) = 1
    /\ Len(called) = 2
    /\ called[1].result = called[2].result
    /\ called[1].at = called[2].at

(***************************************************************************)
(* Properties of what a run displays of each response (checked under Spec). *)
(***************************************************************************)
\* the elements of the statements that display op's data
WidgetElements(op) == UNION {ElementsOf(steps) : steps \in Widget[op]}

\* those among them that no other operation's statements produce
OwnElements(op) ==
    WidgetElements(op)
        \ UNION {WidgetElements(q) : q \in {x \in Ops : Widget[x] # Widget[op]}}

\* the elements of some statements of op that are on the page, by the source
\* of their value
OnPageFrom(steps, source) ==
    {k \in DOMAIN steps : <<steps[k][3], steps[k][4], source>> \in page}

IsSentinel(op, v) == IF op = "check_api_health" THEN ~v.healthy ELSE v = None

\* C25: a failed result is cached like a successful one: a call that sent a
\* request and returned the sentinel leaves an entry holding it; an identical
\* call made less than the operation's TTL after that returns the sentinel
\* again and sends no request, whatever the API would answer now; an
\* identical call made once the TTL has elapsed sends the request again.
C25_FailureCachedForTTL ==
    [][called' # <<>> =>
         LET c == called'[1]
             failed == {e \in cache[c.op] :
                           e.key = c.key /\ IsSentinel(c.op, e.val)}
         IN  /\ \A e \in failed :
                    now - e.at < ClaimedTTL[c.op] =>
                        /\ c.hit
                        /\ c.result = e.val
                        /\ http' = <<>>
             /\ \A e \in failed :
                    now - e.at >= ClaimedTTL[c.op] =>
                        /\ ~c.hit
                        /\ Len(http') = 1
             /\ (~c.hit /\ IsSentinel(c.op, c.result)) =>
                    \E e \in cache'[c.op] :
                        e.key = c.key /\ e.val = c.result /\ e.at = now]_vars

\* half a TTL after a failed health check, the health check answered
\* unhealthy from the cache, without a request
C25_Witness ==
    /\ IsCall(called, "check_api_health")
    /\ called[1].hit
    /\ ~called[1].result.healthy
    /\ http = <<>>
    /\ now > 0

(***************************************************************************)
(* The requests of the Reddit Sentiment view (checked under Spec).         *)
(***************************************************************************)
\* the operations called by the run, and the keys op was called with
CalledOps == {called[i].op : i \in DOMAIN called}

KeysOf(op) == {called[i].key : i \in {k \in DOMAIN called : called[k].op = op}}

\* the run showed the comprehensive analysis type as selected
ComprehensiveSelected == <<"selectbox", Comprehensivo, "">> \in page

\* the subreddits whose checkbox the run showed ticked
Ticked == {e[2] : e \in {x \in page : x[1] = "checkbox"}}

\* the list of subreddits was available to the run
SubredditsAvailable ==
    \E i \in DOMAIN called :
        called[i].op = "get_available_subreddits" /\ Truthy(called[i].result)

\* C26: a press of Analizar Sentimiento with a non-blank symbol calls the
\* comprehensive analysis exactly when the comprehensive type is selected
\* and the list of selected subreddits is not empty, with the selected
\* subreddits joined by commas, and then calls neither the basic sentiment
\* nor the posts; in every other case it calls the basic sentiment and the
\* posts with limit 10 and not the comprehensive analysis.  When the list of
\* available subreddits could not be fetched, the selected list is
\* <<"wallstreetbets">>.
C26_WhichSentimentRequest ==
    (active_tab = 4 /\ clicked = "Analizar Sentimiento" /\ strip(entered) # <<>>) =>
        LET none_selected == ComprehensiveSelected /\ SubredditsAvailable /\ Ticked = {}
        IN  /\ IF ComprehensiveSelected /\ ~none_selected
               THEN /\ "get_comprehensive_reddit_analysis" \in CalledOps
                    /\ \A k \in KeysOf("get_comprehensive_reddit_analysis") :
                           /\ k[1] = upper(entered)
                           /\ k[2] # <<>>
                           /\ SubredditsAvailable =>
                                  k[2] = join(SelectSeq(AvailableList,
                                                  LAMBDA x : x \in Ticked), ",")
                           /\ ~SubredditsAvailable => k[2] = <<"wallstreetbets">>
                    /\ "get_reddit_sentiment" \notin CalledOps
                    /\ "get_reddit_posts" \notin CalledOps
               ELSE /\ "get_reddit_sentiment" \in CalledOps
                    /\ KeysOf("get_reddit_posts") = {<<upper(entered), 10>>}
                    /\ "get_comprehensive_reddit_analysis" \notin CalledOps

\* the comprehensive type was selected while the list of subreddits was
\* unavailable: the comprehensive analysis was called for wallstreetbets
C26_Witness ==
    /\ active_tab = 4 /\ clicked = "Analizar Sentimiento" /\ entered = <<"a">>
    /\ ComprehensiveSelected
    /\ ~SubredditsAvailable
    /\ \E k \in KeysOf("get_comprehensive_reddit_analysis") :
           k[2] = <<"wallstreetbets">>
    /\ "get_reddit_posts" \notin CalledOps

\* the results the run obtained from op
ResultsOf(op) == {called[i].result : i \in {k \in DOMAIN called : called[k].op = op}}

\* C27: a press of Actualizar Graficos calls both the API history and the
\* yfinance fallback; the API chart is displayed whenever the API result is
\* present, the yfinance chart only when the API result is absent or empty
\* and the yfinance frame is not empty, and the prompt exactly when neither
\* is available.
C27_ChartsByAvailability ==
    (active_tab = 2 /\ clicked = "Actualizar Graficos") =>
        /\ ResultsOf("get_historical_data_api") # {}
        /\ ResultsOf("get_historical_data") # {}
        /\ \A api \in ResultsOf("get_historical_data_api") :
               \A yf \in ResultsOf("get_historical_data") :
                   /\ Truthy(api) => ApiChartShown
                   /\ FallbackChartShown => (~Truthy(api) /\ Truthy(yf))
                   /\ PromptShown <=> (~Truthy(api) /\ ~Truthy(yf))

(***************************************************************************)
(* The table of the Analisis view (checked under Spec).                    *)
(***************************************************************************)
\* the entries of the list of symbols the user typed
ListEntries == StripUpperNonBlank(split(entered, ","))

\* the prediction of symbol was obtained by the run
PredictionSucceeded(symbol) ==
    \E i \in DOMAIN called :
        /\ called[i].op = "get_prediction"
        /\ called[i].key[1] = symbol
        /\ Truthy(called[i].result)

\* the error of the view
NoPredictions ==
    <<"error", "No se pudieron obtener predicciones para ningun simbolo.", "">>

\* C28: after a press of Analizar Multiples the table has one row for each
\* entry of the list whose prediction succeeded, in the order of the list,
\* and none for the others; the ranking is shown for the same rows; and the
\* error "no predictions" is shown exactly when the list is not empty and no
\* entry's prediction succeeded.
C28_RowsOfSucceededEntries ==
    (active_tab = 1 /\ clicked = "Analizar Multiples") =>
        /\ table = SelectSeq(ListEntries, PredictionSucceeded)
        /\ (<<"ranking", "Ranking de Predicciones", "">> \in page) <=> table # <<>>
        /\ (NoPredictions \in page) <=>
               (/\ ListEntries # <<>>
                /\ \A k \in DOMAIN ListEntries : ~PredictionSucceeded(ListEntries[k]))

(***************************************************************************)
(* Consistency of what is shown of one number (checked under SpecValues).  *)
(***************************************************************************)
\* the digit a character stands for
DigitValue(c) == CHOOSE d \in 0..9 : Digit(d) = c

\* the number written by a text of digits, a sign and a decimal point, in
\* units of its last decimal
RECURSIVE NumberRead(_, _)
NumberRead(t, acc) ==
    IF t = <<>> THEN acc
    ELSE IF Head(t) \in {Digit(d) : d \in 0..9}
         THEN NumberRead(Tail(t), 10 * acc + DigitValue(Head(t)))
         ELSE NumberRead(Tail(t), acc)

NumberShown(t) ==
    IF t # <<>> /\ Head(t) = "-" THEN -NumberRead(t, 0) ELSE NumberRead(t, 0)

\* C29: the band shown in the interpretation of the RSI is the band of the
\* value shown in the RSI (14) metric: overbought above 70, oversold below
\* 30, neutral otherwise, also for a response without rsi_14.
C29_BandOfShownRsi ==
    shown.what = "rsi_14" =>
        LET rsi == NumberShown(shown.text)
        IN  shown.label = IF rsi > 7000 THEN "RSI indica sobrecompra (>70)"
                          ELSE IF rsi < 3000 THEN "RSI indica sobreventa (<30)"
                          ELSE "RSI en rango neutral"

\* C30: for a market capitalisation m > 0 the number shown before the suffix
\* M or B, rounded to one decimal, is below 1000 (never "1000.0M" or
\* "1000.0B"), and the formatter of the comparative view gives the same text
\* as the one of the Informacion de Accion view.
C30_MantissaBelowThousand ==
    (shown.what = "market_cap" /\ ~value.absent /\ value.n > 0) =>
        /\ shown.text[Len(shown.text)] \in {"M", "B"} =>
               NumberShown(shown.text) < 10000
        /\ market_cap_str(value) = shown.text

====
